---- MODULE Spec2Model ----
(***************************************************************************)
(* Report-processing pipeline and assessment orchestrator of the           *)
(* women's-health tracker (server/routes.ts, server/storage.ts,            *)
(* server/gemini.ts, shared/schema.ts).                                    *)
(*                                                                         *)
(* The store is the set of relational tables; every storage call is one    *)
(* atomic step and every `await` of a handler is a point where other       *)
(* requests and background tasks may run.  A Report's id and uploadedAt are *)
(* its position in upload order; the ids of the other rows (random uuids   *)
(* in the program) are made of the creator and the index of the element.   *)
(***************************************************************************)
EXTENDS Integers, Sequences, FiniteSets, TLC

\* ---------------------------------------------------------------- bounds
MaxOps   == 2    \* client requests (uploads and submissions)
MaxRestarts == 1 \* process restarts
MaxItems == 2    \* items in an extracted parameter list
MaxGen   == 1    \* tasks / insights returned by one generation call
MaxChats == 1    \* chat messages sent
MaxToggles == 2  \* clicks on task checkboxes

\* ------------------------------------------------------ program constants
PENDING  == 0
COMPLETE == 1
FAILED   == -1

fileSize == 10 * 1024 * 1024

allowedTypes == {"application/pdf", "image/jpeg", "image/jpg", "image/png"}

\* ------------------------------------------------------------ input sets
Missing  == "<missing>"          \* undefined / absent JSON field
NULL     == "<null>"             \* SQL NULL / JS null

\* the files offered for upload: <<file.mimetype, size in bytes>>
Files == { <<"application/pdf", fileSize>>,
           <<"application/pdf", fileSize + 1>>,
           <<"text/plain", fileSize>> }

\* one element of analysisResult.parameters
Items == { [name |-> "TSH", value |-> "2.5", unit |-> "mIU/L",
             referenceRange |-> Missing, status |-> "Normal"] }

\* the JSON values a field of an element can hold: absent, null, the empty
\* string, the numbers 0 and 2.5, a text
ZERO == "<number 0>"
TWO_AND_A_HALF == "<number 2.5>"
FieldValues == {Missing, NULL, "", ZERO, TWO_AND_A_HALF, "TSH"}

\* elements of every shape: name, value and unit take every JSON value,
\* referenceRange and status three of them
ItemsOfAnyShape ==
    [name : FieldValues, value : FieldValues, unit : FieldValues,
     referenceRange : {Missing, "", "0.4-4.0"}, status : {NULL, "", "High"}]

RECURSIVE SeqsUpTo(_, _)
SeqsUpTo(S, n) ==
    IF n = 0 THEN {<<>>}
    ELSE LET shorter == SeqsUpTo(S, n - 1)
         IN  shorter \cup { Append(s, x) : s \in {t \in shorter : Len(t) = n - 1}, x \in S }

\* what JSON.parse(response.text) can be: an object with a parameters
\* array, an object without one, or the JSON value null
\* (isArray: whether analysisResult.parameters is an array)
AnalysisResults ==
    { [json |-> "object", isArray |-> TRUE, parameters |-> p] :
          p \in SeqsUpTo(Items, MaxItems) }
    \cup { [json |-> "object", isArray |-> FALSE, parameters |-> <<>>],
           [json |-> "null",   isArray |-> FALSE, parameters |-> <<>>] }
\* no result yet; also the extractedData column while it is NULL
NoResult == [json |-> "none", isArray |-> FALSE, parameters |-> <<>>]

\* the kinds of `answers` a request body can carry
AnswerKinds == {"undefined", "null", "string", "object"}

RiskResults == { [score |-> 50,  riskLevel |-> "Moderate"],
                 [score |-> 150, riskLevel |-> "Severe"] }
NoRisk == [score |-> -1, riskLevel |-> "<none>"]

\* ----------------------------------------------------------------- state
VARIABLES
    GEMINI_API_KEY,     \* TRUE iff process.env.GEMINI_API_KEY is set
    medicalReports,     \* table medical_reports
    medicalParameters,  \* table medical_parameters
    assessments,        \* table assessments
    riskScores,         \* table risk_scores
    dailyTasks,         \* table daily_tasks
    insights,           \* table insights
    extraction,         \* per report: the setTimeout callback's position
    requests,           \* POST /api/assessments invocations, in arrival order
    lastUpload,         \* the latest POST /api/reports/upload and its response
    ops,                \* number of client requests so far
    restarts,           \* number of process restarts so far
    lastStatus,         \* the latest GET /api/reports/:id/status and its response
    chatMessages,       \* table chat_messages, in createdAt order
    chats,              \* POST /api/chat/send invocations, in arrival order
    completedTasks,     \* Dashboard state: ids of the tasks shown as completed
    toggles,            \* Dashboard.toggleTask invocations, in click order
    poller,             \* Assessment.pollReportStatus: its position and counters
    fallback            \* the latest call of getFallbackResponse and its result

tables == <<medicalReports, medicalParameters, assessments, riskScores,
            dailyTasks, insights>>
vars == <<GEMINI_API_KEY, medicalReports, medicalParameters, assessments,
          riskScores, dailyTasks, insights, extraction, requests,
          lastUpload, ops, restarts, lastStatus, chatMessages, chats,
          completedTasks, toggles, poller, fallback>>

\* the state of the handlers outside the upload / assessment pipeline
dashboard == <<completedTasks, toggles>>
NoPoller == [pc |-> "idle", reportId |-> 0, attempts |-> 0, polls |-> 0,
             resubmits |-> 0, request |-> 0, toast |-> ""]
NoFallback == [calls |-> 0, version |-> "", userMessage |-> <<>>, result |-> ""]
others == <<lastStatus, chatMessages, chats, dashboard, poller, fallback>>

Init ==
    /\ GEMINI_API_KEY \in BOOLEAN
    /\ medicalReports = <<>>
    /\ medicalParameters = {}
    /\ assessments = {}
    /\ riskScores = {}
    /\ dailyTasks = {}
    /\ insights = {}
    /\ extraction = <<>>
    /\ requests = <<>>
    /\ lastUpload = [hasFile |-> FALSE, mimetype |-> "", size |-> 0,
                     resp |-> [code |-> 0, error |-> "", id |-> 0,
                               analysisComplete |-> 0, extractedData |-> NoResult]]
    /\ ops = 0
    /\ restarts = 0
    /\ lastStatus = [seq |-> 0, id |-> 0, code |-> 0, status |-> "",
                     reportId |-> 0, analysisComplete |-> 0, error |-> ""]
    /\ chatMessages = <<>>
    /\ chats = <<>>
    /\ completedTasks = {}
    /\ toggles = <<>>
    /\ poller = NoPoller
    /\ fallback = NoFallback

\* --------------------------------------------------------------- storage
\* (mutant: the insert ignores the given status and stores 1)
createMedicalReport_StoresComplete(insertReport) ==
    Append(medicalReports,
           [id |-> Len(medicalReports) + 1,
            uploadedAt |-> Len(medicalReports) + 1,
            fileType |-> insertReport.fileType,
            extractedData |-> insertReport.extractedData,
            analysisComplete |-> 1])

\* DatabaseStorage.createMedicalReport: insert, id and uploadedAt defaulted
createMedicalReport(insertReport) ==
    Append(medicalReports,
           [id |-> Len(medicalReports) + 1,
            uploadedAt |-> Len(medicalReports) + 1,
            fileType |-> insertReport.fileType,
            extractedData |-> insertReport.extractedData,
            analysisComplete |-> insertReport.analysisComplete])

\* (mutant: an update without its where clause)
updateMedicalReport_AllRows(id, data) ==
    [r \in DOMAIN medicalReports |->
        [c \in DOMAIN medicalReports[r] |->
            IF c \in DOMAIN data THEN data[c] ELSE medicalReports[r][c]]]

\* DatabaseStorage.updateMedicalReport: set the given columns of row id
updateMedicalReport(id, data) ==
    [r \in DOMAIN medicalReports |->
        IF medicalReports[r].id = id
        THEN [c \in DOMAIN medicalReports[r] |->
                 IF c \in DOMAIN data THEN data[c] ELSE medicalReports[r][c]]
        ELSE medicalReports[r]]

\* (mutant: the rows come in ascending order)
LatestReport_Ascending ==
    CHOOSE r \in DOMAIN medicalReports :
        \A o \in DOMAIN medicalReports :
            medicalReports[o].uploadedAt >= medicalReports[r].uploadedAt

\* DatabaseStorage.getAllMedicalReports: ordered by uploadedAt descending;
\* the handlers use element 0 only
LatestReport ==
    CHOOSE r \in DOMAIN medicalReports :
        \A o \in DOMAIN medicalReports :
            medicalReports[o].uploadedAt <= medicalReports[r].uploadedAt

\* DatabaseStorage.createMedicalParameter
createMedicalParameter(insertParameter) ==
    medicalParameters \cup {insertParameter}

\* ------------------------------------------------- POST /api/reports/upload
\* multer's fileFilter (mutant first: a filter that lets every type pass)
fileFilter_AcceptsAll(mimetype) == TRUE

fileFilter(mimetype) == mimetype \in allowedTypes

\* multer hands the file to the handler when the filter accepts it and it
\* is not larger than limits.fileSize; otherwise it raises an error and the
\* handler does not run
multerAccepts(mimetype, size) == fileFilter(mimetype) /\ size <= fileSize

\* an upload response: the status code, the {error} text, and for a
\* success the returned Report row
UploadResponse(code, error, report) ==
    [code |-> code, error |-> error, id |-> report.id,
     analysisComplete |-> report.analysisComplete,
     extractedData |-> report.extractedData]
NoRow == [id |-> 0, analysisComplete |-> 0, extractedData |-> NoResult]
NoUploadResp == UploadResponse(0, "", NoRow)

\* the application's error-handling middleware answering an error that
\* multer raised before the handler
errorMiddleware(error) == UploadResponse(400, error, NoRow)

UploadRequest(hasFile, mimetype, size, resp) ==
    [hasFile |-> hasFile, mimetype |-> mimetype, size |-> size, resp |-> resp]

UploadRejectedByMulter(mimetype, size) ==
    /\ ~multerAccepts(mimetype, size)
    /\ ops < MaxOps
    /\ ops' = ops + 1
    /\ lastUpload' = UploadRequest(TRUE, mimetype, size,
           errorMiddleware(IF fileFilter(mimetype)
                           THEN "File too large"
                           ELSE "Invalid file type. Only PDF, JPG, and PNG are allowed."))
    /\ UNCHANGED others
    /\ UNCHANGED <<GEMINI_API_KEY, tables, extraction, requests, restarts>>

\* if (!req.file)
UploadNoFile ==
    /\ ops < MaxOps
    /\ ops' = ops + 1
    /\ lastUpload' = UploadRequest(FALSE, "", 0,
                                   UploadResponse(400, "No file uploaded", NoRow))
    /\ UNCHANGED others
    /\ UNCHANGED <<GEMINI_API_KEY, tables, extraction, requests, restarts>>

\* if (!process.env.GEMINI_API_KEY)
UploadNotConfigured(mimetype, size) ==
    /\ multerAccepts(mimetype, size)
    /\ ~GEMINI_API_KEY
    /\ ops < MaxOps
    /\ ops' = ops + 1
    /\ lastUpload' = UploadRequest(TRUE, mimetype, size,
           UploadResponse(500, "AI service not configured. Please add GEMINI_API_KEY.",
                          NoRow))
    /\ UNCHANGED others
    /\ UNCHANGED <<GEMINI_API_KEY, tables, extraction, requests, restarts>>

\* createMedicalReport throws: the handler's catch answers 500
UploadStoreError(mimetype, size) ==
    /\ multerAccepts(mimetype, size)
    /\ GEMINI_API_KEY
    /\ ops < MaxOps
    /\ ops' = ops + 1
    /\ lastUpload' = UploadRequest(TRUE, mimetype, size,
                                   UploadResponse(500, "Failed to upload file", NoRow))
    /\ UNCHANGED others
    /\ UNCHANGED <<GEMINI_API_KEY, tables, extraction, requests, restarts>>

\* the row is inserted, the callback is scheduled with setTimeout and the
\* inserted row is the response
UploadAccepted(mimetype, size) ==
    /\ multerAccepts(mimetype, size)
    /\ GEMINI_API_KEY
    /\ ops < MaxOps
    /\ ops' = ops + 1
    /\ medicalReports' = createMedicalReport(
           [fileType |-> mimetype, analysisComplete |-> 0,
            extractedData |-> NoResult])
    /\ extraction' = Append(extraction,
           [pc |-> "scheduled", analysisResult |-> NoResult, next |-> 1])
    /\ lastUpload' = UploadRequest(TRUE, mimetype, size,
           UploadResponse(200, "", medicalReports'[Len(medicalReports')]))
    /\ UNCHANGED others
    /\ UNCHANGED <<GEMINI_API_KEY, medicalParameters, assessments, riskScores,
                   dailyTasks, insights, requests, restarts>>

Upload ==
    \/ UploadNoFile
    \/ \E file \in Files :
          \/ UploadRejectedByMulter(file[1], file[2])
          \/ UploadNotConfigured(file[1], file[2])
          \/ UploadStoreError(file[1], file[2])
          \/ UploadAccepted(file[1], file[2])

\* ------------------------------------- the background extraction callback
\* JavaScript truthiness of a JSON value: x || y yields y for these
Falsy(v) == v \in {Missing, NULL, "", ZERO}

\* v?.toString(): undefined for an absent or null value, else its text
OptionalToString(v) ==
    IF v \in {Missing, NULL} THEN Missing
    ELSE IF v = ZERO THEN "0"
    ELSE IF v = TWO_AND_A_HALF THEN "2.5"
    ELSE v

\* x || null
OrNull(v) == IF Falsy(v) THEN NULL ELSE v

\* (mutant: the optional fields are stored as they come)
ParameterRow_OptionalKept(reportId, k, param) ==
    [id |-> <<reportId, k>>,
     reportId |-> reportId,
     parameterName |-> IF Falsy(param.name) THEN "Unknown" ELSE param.name,
     value |-> IF Falsy(OptionalToString(param.value)) THEN "0"
               ELSE OptionalToString(param.value),
     unit |-> param.unit,
     referenceRange |-> param.referenceRange,
     status |-> param.status]

\* the row built for element k of analysisResult.parameters
ParameterRow(reportId, k, param) ==
    [id |-> <<reportId, k>>,
     reportId |-> reportId,
     parameterName |-> IF Falsy(param.name) THEN "Unknown" ELSE param.name,
     value |-> IF Falsy(OptionalToString(param.value)) THEN "0"
               ELSE OptionalToString(param.value),
     unit |-> OrNull(param.unit),
     referenceRange |-> OrNull(param.referenceRange),
     status |-> OrNull(param.status)]

\* (mutant: the loop leaves after its first element)
TurnToItem_StopsAfterFirst(analysisResult, k) ==
    IF analysisResult.json = "null" THEN "catch"
    ELSE IF ~analysisResult.isArray THEN "complete"
    ELSE IF k > 1 \/ k > Len(analysisResult.parameters) THEN "complete"
    ELSE "params"

\* where the callback stands when it turns to element k of the list;
\* reading analysisResult.parameters of a JSON null throws
TurnToItem(analysisResult, k) ==
    IF analysisResult.json = "null" THEN "catch"
    ELSE IF ~analysisResult.isArray THEN "complete"
    ELSE IF k > Len(analysisResult.parameters) THEN "complete"
    ELSE "params"

\* await analyzeMedicalReport(...): returns the parsed JSON or throws
ExtractAnalyze(r) ==
    /\ extraction[r].pc = "scheduled"
    /\ \/ \E res \in AnalysisResults :
             extraction' = [extraction EXCEPT ![r].pc = "update",
                                              ![r].analysisResult = res]
       \/ extraction' = [extraction EXCEPT ![r].pc = "catch"]
    /\ UNCHANGED others
    /\ UNCHANGED <<GEMINI_API_KEY, tables, requests, lastUpload, ops, restarts>>

\* await storage.updateMedicalReport(report.id, {extractedData, analysisComplete: 1})
ExtractUpdate(r) ==
    /\ extraction[r].pc = "update"
    /\ \/ /\ medicalReports' = updateMedicalReport(r,
                 [extractedData |-> extraction[r].analysisResult,
                  analysisComplete |-> 1])
          /\ extraction' = [extraction EXCEPT
                 ![r].pc = TurnToItem(extraction[r].analysisResult, 1)]
       \/ /\ extraction' = [extraction EXCEPT ![r].pc = "catch"]
          /\ UNCHANGED medicalReports
    /\ UNCHANGED others
    /\ UNCHANGED <<GEMINI_API_KEY, medicalParameters, assessments, riskScores,
                   dailyTasks, insights, requests, lastUpload, ops, restarts>>

\* await storage.createMedicalParameter({...}) for element `next`; the
\* second branch is anything thrown while the element is handled (the
\* insert rejects, or the element is a JSON null and reading its fields
\* throws)
ExtractCreateParameter(r) ==
    /\ extraction[r].pc = "params"
    /\ LET res == extraction[r].analysisResult
           k   == extraction[r].next
       IN \/ /\ medicalParameters' =
                    createMedicalParameter(ParameterRow(r, k, res.parameters[k]))
             /\ extraction' = [extraction EXCEPT
                    ![r].pc = TurnToItem(res, k + 1), ![r].next = k + 1]
          \/ /\ extraction' = [extraction EXCEPT ![r].pc = "catch"]
             /\ UNCHANGED medicalParameters
    /\ UNCHANGED others
    /\ UNCHANGED <<GEMINI_API_KEY, medicalReports, assessments, riskScores,
                   dailyTasks, insights, requests, lastUpload, ops, restarts>>

\* (mutant: the catch block marks the Report uploaded last, as if `report`
\* were shared by the callbacks)
ExtractCatch_SharedReport(r) ==
    /\ extraction[r].pc = "catch"
    /\ \/ /\ medicalReports' = updateMedicalReport(medicalReports[LatestReport].id,
                                                   [analysisComplete |-> -1])
          /\ extraction' = [extraction EXCEPT ![r].pc = "failed"]
       \/ /\ extraction' = [extraction EXCEPT ![r].pc = "unhandled"]
          /\ UNCHANGED medicalReports
    /\ UNCHANGED others
    /\ UNCHANGED <<GEMINI_API_KEY, medicalParameters, assessments, riskScores,
                   dailyTasks, insights, requests, lastUpload, ops, restarts>>

\* catch (error): await storage.updateMedicalReport(report.id, {analysisComplete: -1});
\* when this write throws too the callback ends with an unhandled rejection
ExtractCatch(r) ==
    /\ extraction[r].pc = "catch"
    /\ \/ /\ medicalReports' = updateMedicalReport(r, [analysisComplete |-> -1])
          /\ extraction' = [extraction EXCEPT ![r].pc = "failed"]
       \/ /\ extraction' = [extraction EXCEPT ![r].pc = "unhandled"]
          /\ UNCHANGED medicalReports
    /\ UNCHANGED others
    /\ UNCHANGED <<GEMINI_API_KEY, medicalParameters, assessments, riskScores,
                   dailyTasks, insights, requests, lastUpload, ops, restarts>>

Extract ==
    \E r \in DOMAIN extraction :
        \/ ExtractAnalyze(r)
        \/ ExtractUpdate(r)
        \/ ExtractCreateParameter(r)
        \/ ExtractCatch(r)

\* ---------------------------------------------------- POST /api/assessments
\* DatabaseStorage.createAssessment / createRiskScore / createDailyTask /
\* createInsight: plain inserts.  The id of an Assessment or RiskScore is
\* the invocation that made it, the id of a DailyTask or Insight the pair
\* of the invocation and the element's index in the generated list.
\* (mutant: one Assessment per Report, a resubmission replaces the row)
createAssessment_OnePerReport(insertAssessment) ==
    {a \in assessments : a.reportId # insertAssessment.reportId}
        \cup {insertAssessment}

createAssessment(insertAssessment) == assessments \cup {insertAssessment}
createRiskScore(insertRiskScore)   == riskScores \cup {insertRiskScore}
createDailyTask(insertTask)        == dailyTasks \cup {insertTask}
createInsight(insertInsight)       == insights \cup {insertInsight}

\* !answers || typeof answers !== 'object'  (typeof null is 'object';
\* mutant first: the typeof test alone)
ValidAnswers_TypeofOnly(answers) == answers \in {"null", "object"}

ValidAnswers(answers) ==
    /\ answers \notin {"undefined", "null"}
    /\ answers \in {"null", "object"}

Response(code, status, reportId, error) ==
    [code |-> code, status |-> status, reportId |-> reportId, error |-> error]

InvalidAnswers   == Response(400, "", 0, "Valid answers object is required")
NoReportFound    == Response(400, "no_report", 0,
                             "No medical report found. Please upload a report first.")
Processing(id)   == Response(202, "processing", id, "")
AnalysisFailed(id) == Response(500, "failed", id,
                             "Report analysis failed. Please try uploading again.")
NotConfigured    == Response(500, "", 0,
                             "AI service not configured. Please contact support.")
AIProcessingFailed == Response(500, "", 0,
                             "Failed to process assessment with AI. Please try again later.")
SaveFailed       == Response(500, "", 0, "Failed to save assessment")
AssessmentOK     == Response(200, "complete", 0, "")
Pending          == Response(0, "", 0, "")

\* one invocation of the handler: its position, its locals and its response
NewRequest(answers) ==
    [pc |-> "done", answers |-> answers, latest |-> 0, seen |-> 0,
     assessmentId |-> 0, riskResult |-> NoRisk, count |-> 0, next |-> 0,
     aiCalls |-> 0,
     threw |-> "", resp |-> Pending]

\* the checks on latestReport.analysisComplete (mutants first: one without
\* the PENDING check, one without the FAILED check)
GateOnLatest_NoPendingCheck(q, latestReport) ==
    LET seen == [q EXCEPT !.latest = latestReport.id,
                          !.seen = latestReport.analysisComplete] IN
    IF latestReport.analysisComplete = -1
      THEN [seen EXCEPT !.resp = AnalysisFailed(latestReport.id)]
    ELSE [seen EXCEPT !.pc = "createAssessment"]

GateOnLatest_NoFailedCheck(q, latestReport) ==
    LET seen == [q EXCEPT !.latest = latestReport.id,
                          !.seen = latestReport.analysisComplete] IN
    IF latestReport.analysisComplete = 0
      THEN [seen EXCEPT !.resp = Processing(latestReport.id)]
    ELSE [seen EXCEPT !.pc = "createAssessment"]

GateOnLatest(q, latestReport) ==
    LET seen == [q EXCEPT !.latest = latestReport.id,
                          !.seen = latestReport.analysisComplete] IN
    IF latestReport.analysisComplete = 0
      THEN [seen EXCEPT !.resp = Processing(latestReport.id)]
    ELSE IF latestReport.analysisComplete = -1
      THEN [seen EXCEPT !.resp = AnalysisFailed(latestReport.id)]
    ELSE [seen EXCEPT !.pc = "createAssessment"]

\* (mutant: no `if (!latestReport)`; reading a field of undefined throws
\* and the outer catch answers)
Gate_NoReportCheckMissing(answers) ==
    LET q == NewRequest(answers) IN
    IF ~ValidAnswers(answers)
      THEN [q EXCEPT !.resp = InvalidAnswers]
    ELSE IF medicalReports = <<>>
      THEN [q EXCEPT !.resp = SaveFailed]
    ELSE GateOnLatest(q, medicalReports[LatestReport])

\* the validation, getAllMedicalReports and the checks on reports[0]: the
\* handler's state when it either has answered or awaits createAssessment
Gate(answers) ==
    LET q == NewRequest(answers) IN
    IF ~ValidAnswers(answers)
      THEN [q EXCEPT !.resp = InvalidAnswers]
    ELSE IF medicalReports = <<>>
      THEN [q EXCEPT !.resp = NoReportFound]
    ELSE GateOnLatest(q, medicalReports[LatestReport])

\* a request arrives and runs up to its first response or first store write
AssessSubmit(answers) ==
    /\ ops < MaxOps
    /\ ops' = ops + 1
    /\ requests' = Append(requests, Gate(answers))
    /\ UNCHANGED others
    /\ UNCHANGED <<GEMINI_API_KEY, tables, extraction, lastUpload, restarts>>

\* a storage call inside the handler throws outside the inner try
AssessSaveFailed(q) ==
    /\ requests[q].pc = "createAssessment"
    /\ requests' = [requests EXCEPT ![q].pc = "done", ![q].resp = SaveFailed]
    /\ UNCHANGED others
    /\ UNCHANGED <<GEMINI_API_KEY, tables, extraction, lastUpload, ops, restarts>>

\* await storage.createAssessment(...), then the API-key check
AssessCreateAssessment(q) ==
    /\ requests[q].pc = "createAssessment"
    /\ assessments' = createAssessment(
           [id |-> q, reportId |-> requests[q].latest,
            answers |-> requests[q].answers])
    /\ requests' = [requests EXCEPT
           ![q].assessmentId = q,
           ![q].pc = IF GEMINI_API_KEY THEN "calculateRiskScore" ELSE "done",
           ![q].resp = IF GEMINI_API_KEY THEN Pending ELSE NotConfigured]
    /\ UNCHANGED others
    /\ UNCHANGED <<GEMINI_API_KEY, medicalReports, medicalParameters, riskScores,
                   dailyTasks, insights, extraction, lastUpload, ops, restarts>>

\* (mutant: the catch swallows the error and answers as a success)
AssessThrow_SwallowsError(q) ==
    /\ requests[q].pc \in {"calculateRiskScore", "createRiskScore",
                           "generateDailyTasks", "createDailyTask",
                           "generateInsights", "createInsight"}
    /\ requests' = [requests EXCEPT
           ![q].pc = "done",
           ![q].threw = requests[q].pc,
           ![q].riskResult = NoRisk,
           ![q].count = 0,
           ![q].next = 0,
           ![q].aiCalls = IF requests[q].pc \in {"calculateRiskScore",
                                "generateDailyTasks", "generateInsights"}
                          THEN @ + 1 ELSE @,
           ![q].resp = AssessmentOK]
    /\ UNCHANGED others
    /\ UNCHANGED <<GEMINI_API_KEY, tables, extraction, lastUpload, ops, restarts>>

\* anything thrown inside the inner try: catch (aiError) answers 500
AssessThrow(q) ==
    /\ requests[q].pc \in {"calculateRiskScore", "createRiskScore",
                           "generateDailyTasks", "createDailyTask",
                           "generateInsights", "createInsight"}
    /\ requests' = [requests EXCEPT
           ![q].pc = "done",
           ![q].threw = requests[q].pc,
           ![q].riskResult = NoRisk,
           ![q].count = 0,
           ![q].next = 0,
           ![q].aiCalls = IF requests[q].pc \in {"calculateRiskScore",
                                "generateDailyTasks", "generateInsights"}
                          THEN @ + 1 ELSE @,
           ![q].resp = AIProcessingFailed]
    /\ UNCHANGED others
    /\ UNCHANGED <<GEMINI_API_KEY, tables, extraction, lastUpload, ops, restarts>>

\* (mutant: the risk result is handed on without being stored)
AssessCalculateRiskScore_NotStored(q) ==
    /\ requests[q].pc = "calculateRiskScore"
    /\ \E riskResult \in RiskResults :
          requests' = [requests EXCEPT ![q].pc = "generateDailyTasks",
                                       ![q].riskResult = riskResult,
                                       ![q].aiCalls = @ + 1]
    /\ UNCHANGED others
    /\ UNCHANGED <<GEMINI_API_KEY, tables, extraction, lastUpload, ops, restarts>>

\* await calculateRiskScore(latestReport.extractedData, answers)
AssessCalculateRiskScore(q) ==
    /\ requests[q].pc = "calculateRiskScore"
    /\ \E riskResult \in RiskResults :
          requests' = [requests EXCEPT ![q].pc = "createRiskScore",
                                       ![q].riskResult = riskResult,
                                       ![q].aiCalls = @ + 1]
    /\ UNCHANGED others
    /\ UNCHANGED <<GEMINI_API_KEY, tables, extraction, lastUpload, ops, restarts>>

\* await storage.createRiskScore({...})
AssessCreateRiskScore(q) ==
    /\ requests[q].pc = "createRiskScore"
    /\ riskScores' = createRiskScore(
           [id |-> q, reportId |-> requests[q].latest,
            assessmentId |-> requests[q].assessmentId,
            score |-> requests[q].riskResult.score,
            riskLevel |-> requests[q].riskResult.riskLevel])
    /\ requests' = [requests EXCEPT ![q].pc = "generateDailyTasks"]
    /\ UNCHANGED others
    /\ UNCHANGED <<GEMINI_API_KEY, medicalReports, medicalParameters, assessments,
                   dailyTasks, insights, extraction, lastUpload, ops, restarts>>

\* await generateDailyTasks(latestReport.extractedData, riskResult): the
\* last use of riskResult, which is dropped from the handler's state here
AssessGenerateDailyTasks(q) ==
    /\ requests[q].pc = "generateDailyTasks"
    /\ \E n \in 0..MaxGen :
          requests' = [requests EXCEPT
              ![q].pc = IF n = 0 THEN "generateInsights" ELSE "createDailyTask",
              ![q].count = n,
              ![q].next = IF n = 0 THEN 0 ELSE 1,
              ![q].riskResult = NoRisk,
              ![q].aiCalls = @ + 1]
    /\ UNCHANGED others
    /\ UNCHANGED <<GEMINI_API_KEY, tables, extraction, lastUpload, ops, restarts>>

\* await storage.createDailyTask({...}) for the next task of the list
AssessCreateDailyTask(q) ==
    /\ requests[q].pc = "createDailyTask"
    /\ dailyTasks' = createDailyTask(
           [id |-> <<q, requests[q].next>>, reportId |-> requests[q].latest,
            completed |-> 0])
    /\ LET last == requests[q].next = requests[q].count IN
       requests' = [requests EXCEPT
           ![q].next = IF last THEN 0 ELSE @ + 1,
           ![q].count = IF last THEN 0 ELSE @,
           ![q].pc = IF last THEN "generateInsights" ELSE @]
    /\ UNCHANGED others
    /\ UNCHANGED <<GEMINI_API_KEY, medicalReports, medicalParameters, assessments,
                   riskScores, insights, extraction, lastUpload, ops, restarts>>

\* await generateInsights(latestReport.extractedData, answers); with an
\* empty list the loop is skipped and res.json(...) follows at once
AssessGenerateInsights(q) ==
    /\ requests[q].pc = "generateInsights"
    /\ \E n \in 0..MaxGen :
          requests' = [requests EXCEPT
              ![q].pc = IF n = 0 THEN "done" ELSE "createInsight",
              ![q].count = n,
              ![q].next = IF n = 0 THEN 0 ELSE 1,
              ![q].aiCalls = @ + 1,
              ![q].resp = IF n = 0 THEN AssessmentOK ELSE @]
    /\ UNCHANGED others
    /\ UNCHANGED <<GEMINI_API_KEY, tables, extraction, lastUpload, ops, restarts>>

\* await storage.createInsight({...}); after the last one res.json(...)
AssessCreateInsight(q) ==
    /\ requests[q].pc = "createInsight"
    /\ insights' = createInsight(
           [id |-> <<q, requests[q].next>>, reportId |-> requests[q].latest])
    /\ LET last == requests[q].next = requests[q].count IN
       requests' = [requests EXCEPT
           ![q].next = IF last THEN 0 ELSE @ + 1,
           ![q].count = IF last THEN 0 ELSE @,
           ![q].pc = IF last THEN "done" ELSE @,
           ![q].resp = IF last THEN AssessmentOK ELSE @]
    /\ UNCHANGED others
    /\ UNCHANGED <<GEMINI_API_KEY, medicalReports, medicalParameters, assessments,
                   riskScores, dailyTasks, extraction, lastUpload, ops, restarts>>

\* the steps of the invocations in flight
AssessStep ==
       \E q \in DOMAIN requests :
          \/ AssessSaveFailed(q)
          \/ AssessCreateAssessment(q)
          \/ AssessThrow(q)
          \/ AssessCalculateRiskScore(q)
          \/ AssessCreateRiskScore(q)
          \/ AssessGenerateDailyTasks(q)
          \/ AssessCreateDailyTask(q)
          \/ AssessGenerateInsights(q)
          \/ AssessCreateInsight(q)

Assess ==
    \/ \E answers \in AnswerKinds : AssessSubmit(answers)
    \/ AssessStep

\* ------------------------------------------- GET /api/reports/:id/status
\* (mutant: the `=== -1` line is missing)
statusOf_FailedAsProcessing(analysisComplete) ==
    IF analysisComplete = 1 THEN "complete" ELSE "processing"

\* let status = 'processing'; if (=== 1) 'complete'; if (=== -1) 'failed'
statusOf(analysisComplete) ==
    IF analysisComplete = -1 THEN "failed"
    ELSE IF analysisComplete = 1 THEN "complete"
    ELSE "processing"

StatusResponse(seq, id, code, status, report, error) ==
    [seq |-> seq, id |-> id, code |-> code, status |-> status,
     reportId |-> report.id, analysisComplete |-> report.analysisComplete,
     error |-> error]

\* reports.find(r => r.id === id) over getAllMedicalReports(), then the
\* answer; seq numbers the request among the client's requests
GetReportStatus(id) ==
    /\ ops < MaxOps
    /\ ops' = ops + 1
    /\ \/ lastStatus' = StatusResponse(ops', id, 500, "", NoRow,
                                       "Failed to fetch report status")
       \/ /\ \A r \in DOMAIN medicalReports : medicalReports[r].id # id
          /\ lastStatus' = StatusResponse(ops', id, 404, "", NoRow,
                                          "Report not found")
       \/ \E r \in DOMAIN medicalReports :
             /\ medicalReports[r].id = id
             /\ lastStatus' = StatusResponse(ops', id, 200,
                    statusOf(medicalReports[r].analysisComplete),
                    medicalReports[r], "")
    /\ UNCHANGED <<GEMINI_API_KEY, tables, extraction, requests, lastUpload,
                   restarts, chatMessages, chats, dashboard, poller, fallback>>

ReportStatus == \E id \in 1..(Len(medicalReports) + 1) : GetReportStatus(id)

\* ------------------------------------------------------ POST /api/chat/send
\* a request body's content: whether the field is a non-empty string, and
\* which of the fallback's keywords its lower-cased text includes
ChatContents ==
    { [kind |-> "undefined", words |-> {}],
      [kind |-> "empty",     words |-> {}],
      [kind |-> "text",      words |-> {}],
      [kind |-> "text",      words |-> {"thyroid", "pcos"}] }

HEALTH_KNOWLEDGE_BASE ==
    [pcos |-> "PCOS management involves a multi-faceted approach",
     thyroid |-> "Thyroid health is crucial for overall wellness",
     exercise |-> "Regular exercise is essential for hormonal balance",
     nutrition |-> "Nutrition plays a vital role in women's hormonal health",
     stress |-> "Stress management is essential for hormonal balance",
     symptoms |-> "Common women's health symptoms and when to seek care",
     diet_charts |-> "COMPREHENSIVE DIET CHARTS & MEAL PLANNING FOR WOMEN'S HEALTH"]

\* lowerMessage.includes(k) for one of the keywords ks
includesAny(words, ks) == words \cap ks # {}

\* (mutant: the thyroid rule is tried before the PCOS rule)
getFallbackResponse_ThyroidFirst(userMessage) ==
    LET w == userMessage.words IN
    IF includesAny(w, {"thyroid"}) THEN HEALTH_KNOWLEDGE_BASE.thyroid
    ELSE IF includesAny(w, {"pcos", "pcod"}) THEN HEALTH_KNOWLEDGE_BASE.pcos
    ELSE IF includesAny(w, {"exercise", "workout", "physical activity"})
      THEN HEALTH_KNOWLEDGE_BASE.exercise
    ELSE IF includesAny(w, {"diet", "nutrition", "meal", "chart", "food", "eat",
                            "breakfast", "lunch", "dinner"})
      THEN HEALTH_KNOWLEDGE_BASE.diet_charts
    ELSE IF includesAny(w, {"stress", "anxiety", "mental health"})
      THEN HEALTH_KNOWLEDGE_BASE.stress
    ELSE IF includesAny(w, {"symptom", "sign"}) THEN HEALTH_KNOWLEDGE_BASE.symptoms
    ELSE "I'm here to support your women's health journey!"

getFallbackResponse(userMessage) ==
    LET w == userMessage.words IN
    IF includesAny(w, {"pcos", "pcod"}) THEN HEALTH_KNOWLEDGE_BASE.pcos
    ELSE IF includesAny(w, {"thyroid"}) THEN HEALTH_KNOWLEDGE_BASE.thyroid
    ELSE IF includesAny(w, {"exercise", "workout", "physical activity"})
      THEN HEALTH_KNOWLEDGE_BASE.exercise
    ELSE IF includesAny(w, {"diet", "nutrition", "meal", "chart", "food", "eat",
                            "breakfast", "lunch", "dinner"})
      THEN HEALTH_KNOWLEDGE_BASE.diet_charts
    ELSE IF includesAny(w, {"stress", "anxiety", "mental health"})
      THEN HEALTH_KNOWLEDGE_BASE.stress
    ELSE IF includesAny(w, {"symptom", "sign"}) THEN HEALTH_KNOWLEDGE_BASE.symptoms
    ELSE "I'm here to support your women's health journey!"

\* the other copy of the module: its diet rule has three keywords and
\* answers with the nutrition text
getFallbackResponse_part_006(userMessage) ==
    LET w == userMessage.words IN
    IF includesAny(w, {"pcos", "pcod"}) THEN HEALTH_KNOWLEDGE_BASE.pcos
    ELSE IF includesAny(w, {"thyroid"}) THEN HEALTH_KNOWLEDGE_BASE.thyroid
    ELSE IF includesAny(w, {"exercise", "workout", "physical activity"})
      THEN HEALTH_KNOWLEDGE_BASE.exercise
    ELSE IF includesAny(w, {"nutrition", "diet", "eat"})
      THEN HEALTH_KNOWLEDGE_BASE.nutrition
    ELSE IF includesAny(w, {"stress", "anxiety", "mental health"})
      THEN HEALTH_KNOWLEDGE_BASE.stress
    ELSE IF includesAny(w, {"symptom", "sign"}) THEN HEALTH_KNOWLEDGE_BASE.symptoms
    ELSE "I'm here to support your women's health journey!"

\* a message as the user typed it: a sequence of words separated by one blank
MaxWords == 2
TypedWords == {"PCOS", "pcod", "Thyroid", "workout", "physical", "activity",
               "meal", "Diet", "stress", "design", "hello"}
UserMessages == SeqsUpTo(TypedWords, MaxWords)

\* String.prototype.toLowerCase, word by word
toLowerCase(text) ==
    [i \in DOMAIN text |->
        CASE text[i] = "PCOS" -> "pcos"
          [] text[i] = "Thyroid" -> "thyroid"
          [] text[i] = "Diet" -> "diet"
          [] OTHER -> text[i]]

\* the keywords of the rules, each as its sequence of words
Keywords ==
    [k \in {"pcos", "pcod", "thyroid", "exercise", "workout", "diet",
            "nutrition", "meal", "chart", "food", "eat", "breakfast", "lunch",
            "dinner", "stress", "anxiety", "symptom", "sign"} |-> <<k>>]
    @@ [k \in {"physical activity"} |-> <<"physical", "activity">>]
    @@ [k \in {"mental health"} |-> <<"mental", "health">>]

\* the keywords that occur inside one lower-cased word
PartsOf(word) == IF word = "design" THEN {"design", "sign"} ELSE {word}

\* String.prototype.includes: the keyword occurs somewhere in the text
includes(lowerMessage, keyword) ==
    LET kw == Keywords[keyword] IN
    \E i \in 1..(Len(lowerMessage) + 1 - Len(kw)) :
        \A j \in 1..Len(kw) : kw[j] \in PartsOf(lowerMessage[i + j - 1])

\* the argument of the fallback: which keywords lowerMessage includes
FallbackArgument(text) ==
    [kind |-> "text",
     words |-> {k \in DOMAIN Keywords : includes(toLowerCase(text), k)}]

\* one call of getFallbackResponse, in either copy of the module, on the
\* message held in the state
CallFallback ==
    /\ fallback.calls = 0
    /\ fallback' =
          [fallback EXCEPT
              !.calls = 1,
              !.result = IF fallback.version = "part_005"
                         THEN getFallbackResponse(FallbackArgument(fallback.userMessage))
                         ELSE getFallbackResponse_part_006(
                                  FallbackArgument(fallback.userMessage))]
    /\ UNCHANGED <<GEMINI_API_KEY, tables, extraction, requests, lastUpload, ops,
                   restarts, lastStatus, chatMessages, chats, dashboard, poller>>

\* what happens inside generateChatResponse: the model replies with text,
\* replies with an empty text, the call throws, or getAIClient throws
ChatOutcomes == {"reply", "empty", "transport", "noclient"}
AIReply == "<model reply>"

\* (mutant: response.text is returned without the emptiness check)
generateChatResponse_NoEmptyCheck(userMessage, outcome) ==
    IF outcome = "reply" THEN AIReply
    ELSE IF outcome = "empty" THEN ""
    ELSE getFallbackResponse(userMessage)

\* generateChatResponse: the reply, or the fallback for anything thrown in
\* its try block (an empty reply is thrown as an error)
generateChatResponse(userMessage, outcome) ==
    IF outcome = "reply" THEN AIReply
    ELSE getFallbackResponse(userMessage)

fallbackResponse == "I'm here to help with your health concerns. I encountered a temporary issue"

\* storage.createChatMessage / storage.getChatMessages: insert with id and
\* createdAt defaulted; all rows in createdAt order
createChatMessage(id, insertMessage) ==
    Append(chatMessages, [id |-> id, role |-> insertMessage.role,
                          content |-> insertMessage.content])

getChatMessages == chatMessages

ChatResponse(code, success, response, error) ==
    [code |-> code, success |-> success, response |-> response, error |-> error]

ChatPending == ChatResponse(0, FALSE, "", "")

\* the text stored for a message sent by the user
TextOf(content) == <<"user text", content.words>>

\* one invocation: its position, its locals (dropped when it has answered),
\* what failed on its way and its response
NewChat(content) ==
    [pc |-> "done", content |-> content, history |-> <<>>, conversation |-> <<>>,
     outcome |-> "", aiResponse |-> "", storeThrew |-> {}, resp |-> ChatPending]

\* the request arrives: the content and API-key checks
ChatSend(content) ==
    /\ Len(chats) < MaxChats
    /\ chats' = Append(chats,
          IF content.kind # "text"
            THEN [NewChat(content) EXCEPT
                     !.resp = ChatResponse(400, FALSE, "", "Content is required")]
          ELSE IF ~GEMINI_API_KEY
            THEN [NewChat(content) EXCEPT
                     !.resp = ChatResponse(500, FALSE, "",
                         "AI service not configured. Please contact support.")]
          ELSE [NewChat(content) EXCEPT !.pc = "createUser"])
    /\ UNCHANGED <<GEMINI_API_KEY, tables, extraction, requests, lastUpload, ops,
                   restarts, lastStatus, chatMessages, dashboard, poller, fallback>>

\* await storage.createChatMessage({role: 'user', content}); a throw here is
\* outside the inner try
ChatCreateUser(c) ==
    /\ chats[c].pc = "createUser"
    /\ \/ /\ chatMessages' = createChatMessage(<<c, 1>>,
                 [role |-> "user", content |-> TextOf(chats[c].content)])
          /\ chats' = [chats EXCEPT ![c].pc = "getChatMessages"]
       \/ /\ chats' = [chats EXCEPT
                 ![c].pc = "done",
                 ![c].storeThrew = @ \cup {"createUser"},
                 ![c].resp = ChatResponse(500, FALSE, "", "Failed to send message")]
          /\ UNCHANGED chatMessages
    /\ UNCHANGED <<GEMINI_API_KEY, tables, extraction, requests, lastUpload, ops,
                   restarts, lastStatus, dashboard, poller, fallback>>

\* const chatMessages = await storage.getChatMessages(), mapped to the
\* conversation history
ChatGetMessages(c) ==
    /\ chats[c].pc = "getChatMessages"
    /\ \/ chats' = [chats EXCEPT
              ![c].pc = "generateChatResponse",
              ![c].history = [i \in DOMAIN getChatMessages |->
                                 [role |-> getChatMessages[i].role,
                                  content |-> getChatMessages[i].content]]]
       \/ chats' = [chats EXCEPT ![c].pc = "catch",
                                 ![c].storeThrew = @ \cup {"getChatMessages"}]
    /\ UNCHANGED <<GEMINI_API_KEY, tables, extraction, requests, lastUpload, ops,
                   restarts, lastStatus, chatMessages, dashboard, poller, fallback>>

\* const aiResponse = await generateChatResponse(content, conversationHistory):
\* the contents sent are the history followed by the user message
ChatGenerate(c) ==
    /\ chats[c].pc = "generateChatResponse"
    /\ \E outcome \in ChatOutcomes :
          chats' = [chats EXCEPT
              ![c].pc = "createAssistant",
              ![c].outcome = outcome,
              ![c].conversation =
                  Append([i \in DOMAIN chats[c].history |->
                             [role |-> IF chats[c].history[i].role = "assistant"
                                       THEN "model" ELSE "user",
                              content |-> chats[c].history[i].content]],
                         [role |-> "user", content |-> TextOf(chats[c].content)]),
              ![c].history = <<>>,
              ![c].aiResponse = generateChatResponse(chats[c].content, outcome)]
    /\ UNCHANGED <<GEMINI_API_KEY, tables, extraction, requests, lastUpload, ops,
                   restarts, lastStatus, chatMessages, dashboard, poller, fallback>>

\* await storage.createChatMessage({role: 'assistant', content: aiResponse});
\* res.json({success: true, response: aiResponse})
ChatCreateAssistant(c) ==
    /\ chats[c].pc = "createAssistant"
    /\ \/ /\ chatMessages' = createChatMessage(<<c, 2>>,
                 [role |-> "assistant", content |-> chats[c].aiResponse])
          /\ chats' = [chats EXCEPT
                 ![c].pc = "done",
                 ![c].conversation = <<>>,
                 ![c].aiResponse = "",
                 ![c].resp = ChatResponse(200, TRUE, chats[c].aiResponse, "")]
       \/ /\ chats' = [chats EXCEPT ![c].pc = "catch",
                                    ![c].storeThrew = @ \cup {"createAssistant"}]
          /\ UNCHANGED chatMessages
    /\ UNCHANGED <<GEMINI_API_KEY, tables, extraction, requests, lastUpload, ops,
                   restarts, lastStatus, dashboard, poller, fallback>>

\* (mutant: the catch block answers with the fallback without storing it)
ChatCatch_NotStored(c) ==
    /\ chats[c].pc = "catch"
    /\ chats' = [chats EXCEPT
           ![c].pc = "done",
           ![c].conversation = <<>>,
           ![c].aiResponse = "",
           ![c].resp = ChatResponse(200, TRUE, fallbackResponse, "")]
    /\ UNCHANGED chatMessages
    /\ UNCHANGED <<GEMINI_API_KEY, tables, extraction, requests, lastUpload, ops,
                   restarts, lastStatus, dashboard, poller, fallback>>

\* catch (aiError): the fixed fallback is stored and answered; a throw of
\* this write reaches the outer catch
ChatCatch(c) ==
    /\ chats[c].pc = "catch"
    /\ \/ /\ chatMessages' = createChatMessage(<<c, 3>>,
                 [role |-> "assistant", content |-> fallbackResponse])
          /\ chats' = [chats EXCEPT
                 ![c].pc = "done",
                 ![c].conversation = <<>>,
                 ![c].aiResponse = "",
                 ![c].resp = ChatResponse(200, TRUE, fallbackResponse, "")]
       \/ /\ chats' = [chats EXCEPT
                 ![c].pc = "done",
                 ![c].conversation = <<>>,
                 ![c].aiResponse = "",
                 ![c].storeThrew = @ \cup {"catch"},
                 ![c].resp = ChatResponse(500, FALSE, "", "Failed to send message")]
          /\ UNCHANGED chatMessages
    /\ UNCHANGED <<GEMINI_API_KEY, tables, extraction, requests, lastUpload, ops,
                   restarts, lastStatus, dashboard, poller, fallback>>

Chat ==
    \/ \E content \in ChatContents : ChatSend(content)
    \/ \E c \in DOMAIN chats :
          \/ ChatCreateUser(c)
          \/ ChatGetMessages(c)
          \/ ChatGenerate(c)
          \/ ChatCreateAssistant(c)
          \/ ChatCatch(c)

\* ------------------------------------ PATCH /api/tasks/:id and the Dashboard
\* DatabaseStorage.updateDailyTask: set completed of the row with this id
updateDailyTask(id, completed) ==
    { IF t.id = id THEN [t EXCEPT !.completed = IF completed THEN 1 ELSE 0] ELSE t :
          t \in dailyTasks }

\* useEffect on [tasks]: the ids of the fetched tasks with completed === 1
CompletedOf(tasks) == { t.id : t \in {u \in tasks : u.completed = 1} }

\* a click on a task's checkbox: toggleTask copies the rendered
\* completedTasks and derives the value to send from it
\* (was: the stored flag at the time of the click)
ToggleStart(taskId) ==
    /\ Len(toggles) < MaxToggles
    /\ toggles' = Append(toggles,
          [pc |-> "patch", taskId |-> taskId, newCompleted |-> completedTasks,
           isCompleted |-> taskId \notin completedTasks, patched |-> FALSE,
           was |-> (CHOOSE t \in dailyTasks : t.id = taskId).completed])
    /\ UNCHANGED <<GEMINI_API_KEY, tables, extraction, requests, lastUpload, ops,
                   restarts, lastStatus, chatMessages, chats, completedTasks, poller, fallback>>

\* await apiRequest('PATCH', `/api/tasks/${taskId}`, {completed: isCompleted}):
\* the handler calls storage.updateDailyTask(id, completed); when the
\* request fails the client's catch only logs
TogglePatch(k) ==
    /\ toggles[k].pc = "patch"
    /\ \/ /\ dailyTasks' = updateDailyTask(toggles[k].taskId, toggles[k].isCompleted)
          /\ toggles' = [toggles EXCEPT ![k].pc = "setCompletedTasks",
                                        ![k].patched = TRUE]
       \/ /\ toggles' = [toggles EXCEPT ![k].pc = "done",
                                        ![k].newCompleted = {}]
          /\ UNCHANGED dailyTasks
    /\ UNCHANGED <<GEMINI_API_KEY, medicalReports, medicalParameters, assessments,
                   riskScores, insights, extraction, requests, lastUpload, ops,
                   restarts, lastStatus, chatMessages, chats, completedTasks, poller, fallback>>

\* newCompleted.add / delete; setCompletedTasks(newCompleted)
ToggleSetCompleted(k) ==
    /\ toggles[k].pc = "setCompletedTasks"
    /\ completedTasks' = IF toggles[k].isCompleted
                         THEN toggles[k].newCompleted \cup {toggles[k].taskId}
                         ELSE toggles[k].newCompleted \ {toggles[k].taskId}
    /\ toggles' = [toggles EXCEPT ![k].pc = "invalidateQueries",
                                  ![k].newCompleted = {}]
    /\ UNCHANGED <<GEMINI_API_KEY, tables, extraction, requests, lastUpload, ops,
                   restarts, lastStatus, chatMessages, chats, poller, fallback>>

\* await queryClient.invalidateQueries(['/api/tasks']): the list is fetched
\* again and the effect rebuilds completedTasks from it
ToggleInvalidate(k) ==
    /\ toggles[k].pc = "invalidateQueries"
    /\ completedTasks' = CompletedOf(dailyTasks)
    /\ toggles' = [toggles EXCEPT ![k].pc = "done"]
    /\ UNCHANGED <<GEMINI_API_KEY, tables, extraction, requests, lastUpload, ops,
                   restarts, lastStatus, chatMessages, chats, poller, fallback>>

Toggle ==
    \/ \E t \in dailyTasks : ToggleStart(t.id)
    \/ \E k \in DOMAIN toggles :
          \/ TogglePatch(k)
          \/ ToggleSetCompleted(k)
          \/ ToggleInvalidate(k)

\* ------------------------------------------ Assessment.pollReportStatus
maxAttempts == 60

\* (mutant: the loop forgets attempts++)
NextAttempt_NoIncrement(attempts) == attempts

\* await new Promise(resolve => setTimeout(resolve, 2000)); attempts++
NextAttempt(attempts) == attempts + 1

\* the catch block and the code after the loop end the poller with a toast
PollerEnds(toast) == [poller EXCEPT !.pc = "done", !.toast = toast]

\* fetch(`/api/reports/${reportId}/status`) and response.json(): the fetch
\* rejects, or the handler answers 500 (no status field, the loop goes on),
\* or it answers with the status of the Report
PollFetch ==
    /\ poller.pc = "fetch"
    /\ \/ poller' = [PollerEnds("Analysis failed") EXCEPT !.polls = @ + 1]
       \/ poller' = [poller EXCEPT !.pc = "wait", !.polls = @ + 1]
       \/ \E r \in DOMAIN medicalReports :
             /\ medicalReports[r].id = poller.reportId
             /\ LET status == statusOf(medicalReports[r].analysisComplete) IN
                poller' =
                   IF status = "complete"
                     THEN [poller EXCEPT !.pc = "resubmit", !.polls = @ + 1]
                   ELSE IF status = "failed"
                     THEN [PollerEnds("Analysis failed") EXCEPT !.polls = @ + 1]
                   ELSE [poller EXCEPT !.pc = "wait", !.polls = @ + 1]
    /\ UNCHANGED <<GEMINI_API_KEY, tables, extraction, requests, lastUpload, ops,
                   restarts, lastStatus, chatMessages, chats, dashboard, fallback>>

\* the two-second pause, attempts++ and the loop test; after the loop the
\* Timeout toast
PollWait ==
    /\ poller.pc = "wait"
    /\ LET n == NextAttempt(poller.attempts) IN
       poller' = IF n < maxAttempts
                 THEN [poller EXCEPT !.pc = "fetch", !.attempts = n]
                 ELSE [PollerEnds("Timeout") EXCEPT !.attempts = n]
    /\ UNCHANGED <<GEMINI_API_KEY, tables, extraction, requests, lastUpload, ops,
                   restarts, lastStatus, chatMessages, chats, dashboard, fallback>>

\* status 'complete': apiRequest('POST', '/api/assessments', {answers}) with
\* the answers of the first submission; the request reaches the handler or
\* the call rejects
PollResubmit ==
    /\ poller.pc = "resubmit"
    /\ \/ /\ requests' = Append(requests, Gate("object"))
          /\ poller' = [poller EXCEPT !.pc = "awaitSubmit", !.resubmits = @ + 1,
                                      !.request = Len(requests) + 1]
       \/ /\ poller' = [PollerEnds("Analysis failed") EXCEPT !.resubmits = @ + 1]
          /\ UNCHANGED requests
    /\ UNCHANGED <<GEMINI_API_KEY, tables, extraction, lastUpload, ops,
                   restarts, lastStatus, chatMessages, chats, dashboard, fallback>>

\* the resubmission is answered: apiRequest throws unless the status is 2xx
\* (and when the connection is lost); otherwise the success toast
PollSubmitAnswered ==
    /\ poller.pc = "awaitSubmit"
    /\ requests[poller.request].pc \in {"done", "aborted"}
    /\ poller' = IF /\ requests[poller.request].pc = "done"
                    /\ requests[poller.request].resp.code \in 200..299
                 THEN PollerEnds("Assessment complete!")
                 ELSE PollerEnds("Analysis failed")
    /\ UNCHANGED <<GEMINI_API_KEY, tables, extraction, requests, lastUpload, ops,
                   restarts, lastStatus, chatMessages, chats, dashboard, fallback>>

Poll == PollFetch \/ PollWait \/ PollResubmit \/ PollSubmitAnswered

\* --------------------------------------------------------- process restart
\* timers and in-flight handlers live in the process only; the tables and
\* nothing else survive; the environment may differ after the restart
\* (mutant: armed timers and running callbacks outlive the process)
ExtractionEnded_TimersSurvive(pc) == TRUE

ExtractionEnded(pc) == pc \in {"complete", "failed", "unhandled", "lost"}

Restart ==
    /\ restarts < MaxRestarts
    /\ restarts' = restarts + 1
    /\ GEMINI_API_KEY' \in BOOLEAN
    /\ extraction' = [r \in DOMAIN extraction |->
           IF ExtractionEnded(extraction[r].pc) THEN extraction[r]
           ELSE [extraction[r] EXCEPT !.pc = "lost"]]
    /\ requests' = [q \in DOMAIN requests |->
           IF requests[q].pc = "done" THEN requests[q]
           ELSE [requests[q] EXCEPT !.pc = "aborted"]]
    /\ UNCHANGED others
    /\ chats' = [c \in DOMAIN chats |->
           IF chats[c].pc = "done" THEN chats[c]
           ELSE [chats[c] EXCEPT !.pc = "aborted"]]
    /\ UNCHANGED <<tables, lastUpload, ops, lastStatus, chatMessages, dashboard, poller, fallback>>

Next == Upload \/ Extract \/ Assess \/ Restart

Spec == Init /\ [][Next]_vars

\* the pipeline together with clients that ask for a Report's status
NextStatus == Next \/ ReportStatus

SpecStatus == Init /\ [][NextStatus]_vars

\* the chat assistant: it shares the process and its environment only
NextChat == Chat \/ Restart

SpecChat == Init /\ [][NextChat]_vars

\* the Dashboard opened on a store that holds the rows of one processed
\* submission with two tasks; the page has loaded the task list
StoredTasks ==
    { { [id |-> <<1, 1>>, reportId |-> 1, completed |-> c1],
        [id |-> <<1, 2>>, reportId |-> 1, completed |-> c2] } :
          c1 \in {0, 1}, c2 \in {0, 1} }

InitTasks ==
    /\ GEMINI_API_KEY \in BOOLEAN
    /\ medicalReports = <<[id |-> 1, uploadedAt |-> 1, fileType |-> "application/pdf",
                           extractedData |-> [json |-> "object", isArray |-> TRUE,
                                              parameters |-> <<>>],
                           analysisComplete |-> 1]>>
    /\ medicalParameters = {}
    /\ assessments = {[id |-> 1, reportId |-> 1, answers |-> "object"]}
    /\ riskScores = {[id |-> 1, reportId |-> 1, assessmentId |-> 1,
                      score |-> 50, riskLevel |-> "Moderate"]}
    /\ dailyTasks \in StoredTasks
    /\ insights = {}
    /\ extraction = <<>>
    /\ requests = <<>>
    /\ lastUpload = UploadRequest(FALSE, "", 0, NoUploadResp)
    /\ ops = 0
    /\ restarts = 0
    /\ lastStatus = [seq |-> 0, id |-> 0, code |-> 0, status |-> "",
                     reportId |-> 0, analysisComplete |-> 0, error |-> ""]
    /\ chatMessages = <<>>
    /\ chats = <<>>
    /\ completedTasks = CompletedOf(dailyTasks)
    /\ toggles = <<>>
    /\ poller = NoPoller
    /\ fallback = NoFallback

SpecTasks == InitTasks /\ [][Toggle]_vars

\* the questionnaire submitted, and submitted again, for a Report whose
\* extraction has completed
AnalysedResult ==
    [json |-> "object", isArray |-> TRUE,
     parameters |-> <<[name |-> "TSH", value |-> "2.5", unit |-> "mIU/L",
                       referenceRange |-> Missing, status |-> "Normal"]>>]

InitAnalysed ==
    /\ GEMINI_API_KEY \in BOOLEAN
    /\ medicalReports = <<[id |-> 1, uploadedAt |-> 1, fileType |-> "application/pdf",
                           extractedData |-> AnalysedResult,
                           analysisComplete |-> 1]>>
    /\ medicalParameters = {ParameterRow(1, 1, AnalysedResult.parameters[1])}
    /\ assessments = {}
    /\ riskScores = {}
    /\ dailyTasks = {}
    /\ insights = {}
    /\ extraction = <<[pc |-> "complete", analysisResult |-> AnalysedResult,
                       next |-> 2]>>
    /\ requests = <<>>
    /\ lastUpload = UploadRequest(TRUE, "application/pdf", fileSize,
           UploadResponse(200, "", [id |-> 1, analysisComplete |-> 0,
                                    extractedData |-> NoResult]))
    /\ ops = 0
    /\ restarts = 0
    /\ lastStatus = [seq |-> 0, id |-> 0, code |-> 0, status |-> "",
                     reportId |-> 0, analysisComplete |-> 0, error |-> ""]
    /\ chatMessages = <<>>
    /\ chats = <<>>
    /\ completedTasks = {}
    /\ toggles = <<>>
    /\ poller = NoPoller
    /\ fallback = NoFallback

NextResubmit == Assess \/ Restart

SpecResubmit == InitAnalysed /\ [][NextResubmit]_vars

\* submissions on the analysed Report while the process stays up
SpecOrder == InitAnalysed /\ [][Assess]_vars

\* the process stays up; a callback that can take a step eventually takes
\* one (the timer fires, every awaited promise settles)
NextLive == Upload \/ Extract \/ Assess

SpecLive == Init /\ [][NextLive]_vars /\ WF_vars(Extract)

\* the same steps in any order and at any pace
SpecUploads == Init /\ [][NextLive]_vars

\* two stored Reports: the older one COMPLETE with its Parameter, the newer
\* one COMPLETE, FAILED, or PENDING with its extraction still scheduled
InitSeveral ==
    /\ GEMINI_API_KEY = TRUE
    /\ \E newer \in {PENDING, COMPLETE, FAILED} :
          /\ medicalReports =
                <<[id |-> 1, uploadedAt |-> 1, fileType |-> "application/pdf",
                   extractedData |-> AnalysedResult, analysisComplete |-> COMPLETE],
                  [id |-> 2, uploadedAt |-> 2, fileType |-> "application/pdf",
                   extractedData |-> IF newer = COMPLETE THEN AnalysedResult
                                     ELSE NoResult,
                   analysisComplete |-> newer]>>
          /\ medicalParameters =
                {ParameterRow(r, 1, AnalysedResult.parameters[1]) :
                    r \in IF newer = COMPLETE THEN {1, 2} ELSE {1}}
          /\ extraction =
                <<[pc |-> "complete", analysisResult |-> AnalysedResult, next |-> 2],
                  IF newer = COMPLETE
                    THEN [pc |-> "complete", analysisResult |-> AnalysedResult,
                          next |-> 2]
                  ELSE IF newer = FAILED
                    THEN [pc |-> "failed", analysisResult |-> NoResult, next |-> 1]
                  ELSE [pc |-> "scheduled", analysisResult |-> NoResult, next |-> 1]>>
    /\ assessments = {}
    /\ riskScores = {}
    /\ dailyTasks = {}
    /\ insights = {}
    /\ requests = <<>>
    /\ lastUpload = UploadRequest(TRUE, "application/pdf", fileSize,
           UploadResponse(200, "", [id |-> 2, analysisComplete |-> 0,
                                    extractedData |-> NoResult]))
    /\ ops = 1
    /\ restarts = 0
    /\ lastStatus = [seq |-> 0, id |-> 0, code |-> 0, status |-> "",
                     reportId |-> 0, analysisComplete |-> 0, error |-> ""]
    /\ chatMessages = <<>>
    /\ chats = <<>>
    /\ completedTasks = {}
    /\ toggles = <<>>
    /\ poller = NoPoller
    /\ fallback = NoFallback

NextSeveral == Extract \/ Assess

SpecSeveral == InitSeveral /\ [][NextSeveral]_vars

\* analyzeMedicalReport has returned a list of one element of any shape for
\* the one uploaded Report
InitItems ==
    /\ GEMINI_API_KEY = TRUE
    /\ medicalReports = <<[id |-> 1, uploadedAt |-> 1, fileType |-> "application/pdf",
                           extractedData |-> NoResult, analysisComplete |-> PENDING]>>
    /\ medicalParameters = {}
    /\ assessments = {}
    /\ riskScores = {}
    /\ dailyTasks = {}
    /\ insights = {}
    /\ \E item \in ItemsOfAnyShape :
          extraction = <<[pc |-> "update",
                          analysisResult |-> [json |-> "object", isArray |-> TRUE,
                                              parameters |-> <<item>>],
                          next |-> 1]>>
    /\ requests = <<>>
    /\ lastUpload = UploadRequest(TRUE, "application/pdf", fileSize,
           UploadResponse(200, "", [id |-> 1, analysisComplete |-> 0,
                                    extractedData |-> NoResult]))
    /\ ops = MaxOps
    /\ restarts = 0
    /\ lastStatus = [seq |-> 0, id |-> 0, code |-> 0, status |-> "",
                     reportId |-> 0, analysisComplete |-> 0, error |-> ""]
    /\ chatMessages = <<>>
    /\ chats = <<>>
    /\ completedTasks = {}
    /\ toggles = <<>>
    /\ poller = NoPoller
    /\ fallback = NoFallback

\* the rest of the callback after the AI call
NextItems ==
    \E r \in DOMAIN extraction :
        ExtractUpdate(r) \/ ExtractCreateParameter(r) \/ ExtractCatch(r)

SpecItems == InitItems /\ [][NextItems]_vars

\* the Assessment page after its submission was answered 202 for a Report
\* whose extraction is still scheduled: handleSubmit has started the poller
InitPolling ==
    /\ GEMINI_API_KEY = TRUE
    /\ medicalReports = <<[id |-> 1, uploadedAt |-> 1, fileType |-> "application/pdf",
                           extractedData |-> NoResult, analysisComplete |-> 0]>>
    /\ medicalParameters = {}
    /\ assessments = {}
    /\ riskScores = {}
    /\ dailyTasks = {}
    /\ insights = {}
    /\ extraction = <<[pc |-> "scheduled", analysisResult |-> NoResult, next |-> 1]>>
    /\ requests = <<Gate("object")>>
    /\ lastUpload = UploadRequest(TRUE, "application/pdf", fileSize,
           UploadResponse(200, "", medicalReports[1]))
    /\ ops = MaxOps
    /\ restarts = 0
    /\ lastStatus = [seq |-> 0, id |-> 0, code |-> 0, status |-> "",
                     reportId |-> 0, analysisComplete |-> 0, error |-> ""]
    /\ chatMessages = <<>>
    /\ chats = <<>>
    /\ completedTasks = {}
    /\ toggles = <<>>
    /\ poller = [NoPoller EXCEPT !.pc = "fetch",
                                 !.reportId = requests[1].resp.reportId]
    /\ fallback = NoFallback

\* any message, handed to either copy of getFallbackResponse
InitFallback ==
    /\ GEMINI_API_KEY = TRUE
    /\ medicalReports = <<>>
    /\ medicalParameters = {}
    /\ assessments = {}
    /\ riskScores = {}
    /\ dailyTasks = {}
    /\ insights = {}
    /\ extraction = <<>>
    /\ requests = <<>>
    /\ lastUpload = UploadRequest(FALSE, "", 0, NoUploadResp)
    /\ ops = 0
    /\ restarts = 0
    /\ lastStatus = [seq |-> 0, id |-> 0, code |-> 0, status |-> "",
                     reportId |-> 0, analysisComplete |-> 0, error |-> ""]
    /\ chatMessages = <<>>
    /\ chats = <<>>
    /\ completedTasks = {}
    /\ toggles = <<>>
    /\ poller = NoPoller
    /\ \E version \in {"part_005", "part_006"}, text \in UserMessages :
          fallback = [NoFallback EXCEPT !.version = version, !.userMessage = text]

SpecFallback == InitFallback /\ [][CallFallback]_vars

NextPoller == Extract \/ AssessStep \/ Poll \/ Restart

\* every request of the poller is answered or rejected and its timer fires;
\* a handler that has started runs on
SpecPoller ==
    InitPolling /\ [][NextPoller]_vars /\ WF_vars(Poll) /\ WF_vars(AssessStep)

\* the same page later: the poller has been answered 'processing' all but
\* two of its attempts, and the user can still upload one more report
InitPollingAndUpload ==
    /\ GEMINI_API_KEY = TRUE
    /\ medicalReports = <<[id |-> 1, uploadedAt |-> 1, fileType |-> "application/pdf",
                           extractedData |-> NoResult, analysisComplete |-> 0]>>
    /\ medicalParameters = {}
    /\ assessments = {}
    /\ riskScores = {}
    /\ dailyTasks = {}
    /\ insights = {}
    /\ extraction = <<[pc |-> "scheduled", analysisResult |-> NoResult, next |-> 1]>>
    /\ requests = <<Gate("object")>>
    /\ lastUpload = UploadRequest(TRUE, "application/pdf", fileSize,
           UploadResponse(200, "", medicalReports[1]))
    /\ ops = MaxOps - 1
    /\ restarts = 0
    /\ lastStatus = [seq |-> 0, id |-> 0, code |-> 0, status |-> "",
                     reportId |-> 0, analysisComplete |-> 0, error |-> ""]
    /\ chatMessages = <<>>
    /\ chats = <<>>
    /\ completedTasks = {}
    /\ toggles = <<>>
    /\ poller = [NoPoller EXCEPT !.pc = "fetch",
                                 !.reportId = requests[1].resp.reportId,
                                 !.attempts = maxAttempts - 2,
                                 !.polls = maxAttempts - 2]
    /\ fallback = NoFallback

NextPollerAndUpload ==
    \/ \E file \in Files : UploadAccepted(file[1], file[2])
    \/ Extract \/ AssessStep \/ Poll

SpecPollerAndUpload == InitPollingAndUpload /\ [][NextPollerAndUpload]_vars


\* ================================================================ claims
Status(r)       == medicalReports[r].analysisComplete
ParametersOf(r) == {p \in medicalParameters : p.reportId = r}

\* the rows an invocation of POST /api/assessments has created
AssessmentsOf(q) == {a \in assessments : a.id = q}
RiskScoresOf(q)  == {s \in riskScores :
                        \E a \in AssessmentsOf(q) : s.assessmentId = a.id}
DailyTasksOf(q)  == {t \in dailyTasks : t.id[1] = q}
InsightsOf(q)    == {i \in insights : i.id[1] = q}
NoRowsOf(q) ==
    /\ AssessmentsOf(q) = {} /\ RiskScoresOf(q) = {}
    /\ DailyTasksOf(q) = {}  /\ InsightsOf(q) = {}

\* the Report uploaded last (rows are in upload order)
MostRecentReport == medicalReports[Len(medicalReports)]

\* this step is the arrival of an assessment submission
Arrival  == Len(requests') = Len(requests) + 1
Arrived  == requests'[Len(requests')]

TenMB == 10485760
DocumentedTypes == {"application/pdf", "image/jpeg", "image/jpg", "image/png"}

\* C1: every Report is created PENDING, and a Report that is COMPLETE or
\* FAILED never changes its status again.
C1_StatusOnlyLeavesPending ==
    [][ /\ \A r \in DOMAIN medicalReports :
              Status(r) # PENDING =>
                  medicalReports'[r].analysisComplete = Status(r)
        /\ \A r \in DOMAIN medicalReports' \ DOMAIN medicalReports :
              medicalReports'[r].analysisComplete = PENDING ]_vars

\* C2: when the extraction task of a Report has ended by setting it FAILED,
\* no Parameter row of that Report exists.
C2_FailedLeavesNoParameters ==
    \A r \in DOMAIN extraction :
        extraction[r].pc = "failed" => ParametersOf(r) = {}

\* C3: whenever a Report is COMPLETE, one Parameter row per extracted item
\* of its stored payload already exists.
C3_CompleteHasAllParameters ==
    \A r \in DOMAIN medicalReports :
        Status(r) = COMPLETE =>
            Cardinality(ParametersOf(r)) =
                Len(medicalReports[r].extractedData.parameters)

\* C4: a submission with a valid answers object that arrives while the most
\* recently uploaded Report is PENDING is answered 202 'processing' with
\* that Report's id, changes no table, calls no AI function, and no row of
\* it exists at any later time.
C4_PendingIsAnsweredProcessing ==
    [][ /\ (/\ Arrival
            /\ Arrived.answers = "object"
            /\ medicalReports # <<>>
            /\ MostRecentReport.analysisComplete = PENDING)
           => /\ Arrived.resp = Processing(MostRecentReport.id)
              /\ Arrived.resp.code = 202
              /\ Arrived.pc = "done"
              /\ UNCHANGED tables
        /\ \A q \in DOMAIN requests' :
              requests'[q].resp.status = "processing"
                  => /\ requests'[q].pc = "done"
                     /\ requests'[q].aiCalls = 0
                     /\ NoRowsOf(q)' ]_vars

C4_Witness ==
    \E q \in DOMAIN requests :
        /\ requests[q].answers = "object"
        /\ requests[q].resp.code = 202
        /\ requests[q].resp.reportId = Len(medicalReports)
        /\ requests[q].seen = PENDING

\* C5: a submission that arrives while the most recently uploaded Report is
\* FAILED is answered with the 'analysis failed' error and changes no
\* table; no row of it exists at any later time.
C5_FailedIsAnsweredAnalysisFailed ==
    [][ /\ (/\ Arrival
            /\ Arrived.answers = "object"
            /\ medicalReports # <<>>
            /\ MostRecentReport.analysisComplete = FAILED)
           => /\ Arrived.resp = AnalysisFailed(MostRecentReport.id)
              /\ Arrived.resp.code = 500
              /\ Arrived.pc = "done"
              /\ UNCHANGED tables
        /\ \A q \in DOMAIN requests' :
              requests'[q].resp.status = "failed"
                  => /\ requests'[q].pc = "done"
                     /\ NoRowsOf(q)' ]_vars

C5_Witness ==
    \E q \in DOMAIN requests :
        /\ requests[q].resp.status = "failed"
        /\ requests[q].seen = FAILED
        /\ Status(requests[q].latest) = FAILED

\* C6: a submission that arrives when no Report was ever uploaded is
\* answered with the 'no report' error and creates no Assessment,
\* RiskScore, DailyTask or Insight row.
C6_NoReportIsAnsweredNoReport ==
    [][ /\ (/\ Arrival
            /\ Arrived.answers = "object"
            /\ medicalReports = <<>>)
           => /\ Arrived.resp = NoReportFound
              /\ Arrived.resp.code = 400
              /\ Arrived.pc = "done"
              /\ UNCHANGED tables
        /\ \A q \in DOMAIN requests' :
              requests'[q].resp.status = "no_report"
                  => /\ requests'[q].pc = "done"
                     /\ NoRowsOf(q)' ]_vars

C6_Witness ==
    \E q \in DOMAIN requests :
        /\ requests[q].answers = "object"
        /\ requests[q].resp.status = "no_report"
        /\ medicalReports = <<>>

\* C7: while the API key is not configured no step creates a Report row,
\* schedules an extraction or creates an Assessment, RiskScore, DailyTask
\* or Insight row.
C7_NoKeyNothingAccepted ==
    [][ ~GEMINI_API_KEY =>
            /\ medicalReports' = medicalReports
            /\ Len(extraction') = Len(extraction)
            /\ assessments' = assessments
            /\ riskScores' = riskScores
            /\ dailyTasks' = dailyTasks
            /\ insights' = insights ]_vars

\* C8: when one of the three AI calls of a submission throws, no later AI
\* call is made, the answer is the single 'AI processing failed' error
\* (500), and the Assessment, the RiskScore and the DailyTask rows
\* persisted before the throw stay in the store (no table ever loses or
\* changes a row), while nothing of the later steps exists.
C8_AIThrowAbortsWithoutRollback ==
    [][ /\ assessments \subseteq assessments'
        /\ riskScores \subseteq riskScores'
        /\ dailyTasks \subseteq dailyTasks'
        /\ insights \subseteq insights'
        /\ \A q \in DOMAIN requests' :
              LET rq == requests'[q] IN
              rq.threw \in {"calculateRiskScore", "generateDailyTasks",
                            "generateInsights"}
                  => /\ rq.pc = "done"
                     /\ rq.resp = AIProcessingFailed
                     /\ rq.resp.code = 500
                     /\ rq.aiCalls = CASE rq.threw = "calculateRiskScore" -> 1
                                       [] rq.threw = "generateDailyTasks" -> 2
                                       [] rq.threw = "generateInsights"   -> 3
                     /\ Cardinality(AssessmentsOf(q)') = 1
                     /\ Cardinality(RiskScoresOf(q)') =
                            (IF rq.threw = "calculateRiskScore" THEN 0 ELSE 1)
                     /\ (rq.threw # "generateInsights" => DailyTasksOf(q)' = {})
                     /\ InsightsOf(q)' = {} ]_vars

C8_Witness ==
    \E q \in DOMAIN requests :
        /\ requests[q].threw = "generateDailyTasks"
        /\ requests[q].resp = AIProcessingFailed
        /\ AssessmentsOf(q) # {}
        /\ RiskScoresOf(q) # {}
        /\ DailyTasksOf(q) = {}
        /\ InsightsOf(q) = {}

\* C9: an upload whose MIME type is not application/pdf, image/jpeg,
\* image/jpg or image/png, or whose size exceeds 10MB, creates no Report
\* row and schedules no extraction task.
C9_BadUploadCreatesNothing ==
    [][ (/\ lastUpload' # lastUpload
         /\ lastUpload'.hasFile
         /\ \/ lastUpload'.mimetype \notin DocumentedTypes
            \/ lastUpload'.size > TenMB)
        => /\ medicalReports' = medicalReports
           /\ extraction' = extraction
           /\ lastUpload'.resp.code # 200
           /\ lastUpload'.resp.id = 0 ]_vars

C9_Witness ==
    /\ lastUpload.hasFile
    /\ lastUpload.mimetype = "text/plain"
    /\ lastUpload.size <= TenMB
    /\ GEMINI_API_KEY
    /\ Len(medicalReports) = 1

C11_OneParameterRowPerItem ==
    /\ \A r \in DOMAIN extraction :
          (extraction[r].pc = "complete" /\ extraction[r].analysisResult.isArray)
              => /\ Cardinality({p \in medicalParameters : p.id[1] = r}) =
                        Len(extraction[r].analysisResult.parameters)
                 /\ \A p \in medicalParameters : p.id[1] = r <=> p.reportId = r
    /\ \A p \in medicalParameters :
          \E r \in DOMAIN medicalReports : medicalReports[r].id = p.reportId

C11_Witness ==
    \E r \in DOMAIN extraction :
        /\ extraction[r].pc = "complete"
        /\ Len(extraction[r].analysisResult.parameters) = MaxItems
        /\ Cardinality(ParametersOf(r)) = MaxItems

\* C12: the status endpoint answers an existing Report id with 'processing'
\* iff its analysisComplete is 0, 'complete' iff it is 1 and 'failed' iff
\* it is -1, and a status call changes no table (nor any extraction or
\* submission in flight), wherever it is interleaved.
C12_StatusIsPureReadOfFlag ==
    [][ lastStatus'.seq # lastStatus.seq =>
            /\ UNCHANGED <<tables, extraction, requests, GEMINI_API_KEY>>
            /\ \A r \in DOMAIN medicalReports :
                  (lastStatus'.code = 200 /\ lastStatus'.id = medicalReports[r].id)
                      => /\ lastStatus'.reportId = medicalReports[r].id
                         /\ lastStatus'.analysisComplete = Status(r)
                         /\ (lastStatus'.status = "processing" <=> Status(r) = PENDING)
                         /\ (lastStatus'.status = "complete" <=> Status(r) = COMPLETE)
                         /\ (lastStatus'.status = "failed" <=> Status(r) = FAILED)
            /\ (lastStatus'.code = 404 =>
                   \A r \in DOMAIN medicalReports :
                       medicalReports[r].id # lastStatus'.id) ]_vars

C12_Witness ==
    /\ lastStatus.code = 200
    /\ lastStatus.status = "failed"
    /\ Status(lastStatus.reportId) = FAILED

CompletedFlag(taskId) == (CHOOSE t \in dailyTasks : t.id = taskId).completed

\* the successful toggles of a task, in click order
TogglesOf(taskId) ==
    { k \in DOMAIN toggles : toggles[k].taskId = taskId /\ toggles[k].patched }

\* C14: when a task has been toggled twice (two toggleTask calls, each
\* followed by its PATCH), its completed flag is what it was before the
\* first toggle, and a toggle changes no field of any other task.
C14_ToggleTwiceRestores ==
    [][ /\ \A t \in dailyTasks' :
              (\E k1, k2 \in TogglesOf(t.id)' :
                   k1 < k2 /\ TogglesOf(t.id)' = {k1, k2})
                  => \A k \in TogglesOf(t.id)' :
                         (\A o \in TogglesOf(t.id)' : k <= o)
                             => t.completed = toggles'[k].was
        /\ \A t \in dailyTasks :
              (\A k \in DOMAIN toggles :
                   toggles[k].taskId = t.id => toggles'[k].patched = toggles[k].patched)
                  => t \in dailyTasks' ]_vars

\* C15: every stored RiskScore row has a score in 0..100 and a riskLevel
\* among Low, Moderate and High, whatever the risk-scoring call returned.
C15_RiskScoreInRange ==
    \A s \in riskScores :
        /\ s.score \in 0..100
        /\ s.riskLevel \in {"Low", "Moderate", "High"}

\* C16: a Report that is FAILED keeps its status and its data in every
\* later step, its extraction task stays ended (none is started for it
\* again), and a later upload adds a new row and leaves it alone.
C16_FailedStaysFailed ==
    [][ \A r \in DOMAIN medicalReports :
            Status(r) = FAILED
                => /\ r \in DOMAIN medicalReports'
                   /\ medicalReports'[r] = medicalReports[r]
                   /\ extraction'[r] = extraction[r]
                   /\ ExtractionEnded(extraction[r].pc)
                   /\ \A n \in DOMAIN medicalReports' \ DOMAIN medicalReports :
                         medicalReports'[n].id # medicalReports[r].id ]_vars

C16_Witness ==
    /\ Len(medicalReports) = 2
    /\ Status(1) = FAILED
    /\ extraction[1].pc = "failed"
    /\ extraction[2].pc = "complete"

\* C17: an accepted upload inserts the Report as PENDING with null
\* extracted data and answers with that PENDING row while its extraction
\* is only scheduled; an extraction exists only for an existing Report row
\* and no upload response carries COMPLETE or FAILED.
C17_UploadAnswersPendingRow ==
    [][ /\ \A n \in DOMAIN medicalReports' \ DOMAIN medicalReports :
              /\ medicalReports'[n].analysisComplete = PENDING
              /\ medicalReports'[n].extractedData = NoResult
              /\ lastUpload'.resp = UploadResponse(200, "", medicalReports'[n])
              /\ lastUpload'.resp.analysisComplete = PENDING
              /\ n \notin DOMAIN extraction
              /\ extraction'[n].pc = "scheduled"
        /\ DOMAIN extraction' = DOMAIN medicalReports'
        /\ lastUpload'.resp.analysisComplete = PENDING
        /\ (lastUpload'.resp.code = 200 => lastUpload'.resp.id \in DOMAIN medicalReports') ]_vars

C17_Witness ==
    /\ lastUpload.resp.code = 200
    /\ lastUpload.resp.analysisComplete = PENDING
    /\ Status(lastUpload.resp.id) = COMPLETE
    /\ extraction[lastUpload.resp.id].pc = "complete"

\* the submissions on Report r that were answered as a success
SucceededOn(r) ==
    {q \in DOMAIN requests : requests[q].resp = AssessmentOK /\ requests[q].latest = r}

\* C18: no step of a submission deletes or changes a stored row; a
\* submission that succeeds has added exactly one Assessment, one RiskScore
\* and every generated DailyTask and Insight; k successful submissions on
\* one Report leave k Assessment and k RiskScore rows of that Report.
C18_SubmissionsAccumulate ==
    [][ /\ medicalParameters \subseteq medicalParameters'
        /\ assessments \subseteq assessments'
        /\ riskScores \subseteq riskScores'
        /\ dailyTasks \subseteq dailyTasks'
        /\ insights \subseteq insights'
        /\ \A q \in DOMAIN requests :
              /\ (requests[q].pc = "createDailyTask" /\ requests'[q].pc = "generateInsights")
                    => Cardinality(DailyTasksOf(q)') = requests[q].count
              /\ (requests[q].pc = "createInsight" /\ requests'[q].resp = AssessmentOK)
                    => Cardinality(InsightsOf(q)') = requests[q].count
              /\ requests'[q].resp = AssessmentOK
                    => /\ Cardinality(AssessmentsOf(q)') = 1
                       /\ Cardinality(RiskScoresOf(q)') = 1
        /\ \A r \in DOMAIN medicalReports' :
              LET ok == SucceededOn(r)' IN
              /\ Cardinality({a \in assessments' : a.reportId = r /\ a.id \in ok})
                     = Cardinality(ok)
              /\ Cardinality({x \in riskScores' : x.reportId = r /\ x.assessmentId \in ok})
                     = Cardinality(ok) ]_vars

C18_Witness ==
    /\ Cardinality(SucceededOn(1)) = 2
    /\ Cardinality(assessments) = 2
    /\ Cardinality(riskScores) = 2
    /\ Cardinality(dailyTasks) = 2
    /\ Cardinality(insights) = 2

\* C19: a restart while a Report is still PENDING ends its extraction for
\* good: the Report stays PENDING and untouched in every later step, and
\* every submission that arrives while it is the most recent Report is
\* answered 'processing' with its id.
C19_RestartLosesPendingExtraction ==
    [][ /\ \A r \in DOMAIN medicalReports :
              (restarts' # restarts /\ Status(r) = PENDING)
                  => /\ extraction'[r].pc \in {"lost", "unhandled"}
                     /\ medicalReports'[r] = medicalReports[r]
        /\ \A r \in DOMAIN medicalReports :
              (extraction[r].pc = "lost" /\ Status(r) = PENDING)
                  => /\ medicalReports'[r] = medicalReports[r]
                     /\ extraction'[r] = extraction[r]
        /\ (/\ Arrival
            /\ Arrived.answers = "object"
            /\ medicalReports # <<>>
            /\ extraction[Len(medicalReports)].pc = "lost"
            /\ MostRecentReport.analysisComplete = PENDING)
               => /\ Arrived.resp = Processing(MostRecentReport.id)
                  /\ Arrived.pc = "done" ]_vars

C19_Witness ==
    \E q \in DOMAIN requests :
        /\ requests[q].resp.status = "processing"
        /\ extraction[requests[q].latest].pc = "lost"
        /\ Status(requests[q].latest) = PENDING
        /\ restarts = 1

\* C20: the poller ends in every run; it makes at most 60 status requests,
\* resubmits at most once and only to end as complete, and shows the
\* timeout only after 60 requests.
C20_PollerTerminates ==
    /\ [](/\ poller.polls <= maxAttempts
          /\ poller.attempts <= maxAttempts
          /\ poller.resubmits <= 1
          /\ (poller.toast = "Timeout" => poller.polls = maxAttempts /\ poller.resubmits = 0)
          /\ (poller.toast = "Assessment complete!" => poller.resubmits = 1)
          /\ (poller.pc = "done" <=> poller.toast # ""))
    /\ <>(poller.pc = "done")

C20_Witness ==
    /\ poller.pc = "done"
    /\ poller.toast = "Timeout"
    /\ poller.polls = maxAttempts
    /\ Status(poller.reportId) = PENDING

\* the rules of the fallback in their priority order: the keywords of each
\* and the canned response it gives
FallbackRules(version) ==
    << [keywords |-> {"pcos", "pcod"}, response |-> HEALTH_KNOWLEDGE_BASE.pcos],
       [keywords |-> {"thyroid"}, response |-> HEALTH_KNOWLEDGE_BASE.thyroid],
       [keywords |-> {"exercise", "workout", "physical activity"},
        response |-> HEALTH_KNOWLEDGE_BASE.exercise],
       IF version = "part_005"
         THEN [keywords |-> {"diet", "nutrition", "meal", "chart", "food", "eat",
                             "breakfast", "lunch", "dinner"},
               response |-> HEALTH_KNOWLEDGE_BASE.diet_charts]
         ELSE [keywords |-> {"nutrition", "diet", "eat"},
               response |-> HEALTH_KNOWLEDGE_BASE.nutrition],
       [keywords |-> {"stress", "anxiety", "mental health"},
        response |-> HEALTH_KNOWLEDGE_BASE.stress],
       [keywords |-> {"symptom", "sign"}, response |-> HEALTH_KNOWLEDGE_BASE.symptoms] >>

\* the rules that match the lower-cased message
MatchingRules(version, text) ==
    {i \in DOMAIN FallbackRules(version) :
        \E k \in FallbackRules(version)[i].keywords : includes(toLowerCase(text), k)}

GenericMenu == "I'm here to support your women's health journey!"

\* C21: the fallback answers with the response of the first rule, in the
\* order PCOS/PCOD, thyroid, exercise, diet, stress, symptoms, whose keyword
\* the lower-cased message contains, and with the generic menu when no rule
\* matches; the answer is never empty and is fixed by the message.
C21_FallbackFirstMatchingRule ==
    fallback.calls = 1 =>
        LET m == MatchingRules(fallback.version, fallback.userMessage) IN
        /\ fallback.result # ""
        /\ m = {} => fallback.result = GenericMenu
        /\ m # {} =>
              \E i \in m :
                 /\ \A j \in m : i <= j
                 /\ fallback.result = FallbackRules(fallback.version)[i].response

C21_Witness ==
    /\ fallback.calls = 1
    /\ fallback.version = "part_005"
    /\ fallback.userMessage = <<"Thyroid", "PCOS">>
    /\ fallback.result = HEALTH_KNOWLEDGE_BASE.pcos

\* the Report with the greatest upload timestamp
NewestReport ==
    CHOOSE n \in DOMAIN medicalReports :
        \A o \in DOMAIN medicalReports \ {n} :
            medicalReports[o].uploadedAt < medicalReports[n].uploadedAt

\* the rows this step adds
NewRows ==
    (assessments' \ assessments) \cup (riskScores' \ riskScores)
        \cup (dailyTasks' \ dailyTasks) \cup (insights' \ insights)

\* C22: a submission is gated on the Report with the greatest upload
\* timestamp alone: it is answered 202 when that Report is PENDING and
\* 'analysis failed' when it is FAILED, whatever the older Reports are, and
\* changes no table; when that Report is COMPLETE the submission goes on and
\* every row it creates references that Report.
C22_GateLooksAtNewestOnly ==
    [][ /\ (Arrival /\ Arrived.answers = "object" /\ medicalReports # <<>>)
           => LET n == medicalReports[NewestReport] IN
              /\ n.analysisComplete = PENDING
                    => Arrived.resp = Processing(n.id) /\ UNCHANGED tables
              /\ n.analysisComplete = FAILED
                    => Arrived.resp = AnalysisFailed(n.id) /\ UNCHANGED tables
              /\ n.analysisComplete = COMPLETE
                    => /\ Arrived.pc = "createAssessment"
                       /\ Arrived.latest = n.id
                       /\ Arrived.resp = Pending
        /\ \A q \in DOMAIN requests : requests'[q].latest = requests[q].latest
        /\ \A row \in NewRows :
              \E q \in DOMAIN requests :
                 /\ requests[q].pc # "done"
                 /\ requests[q].seen = COMPLETE
                 /\ row.reportId = requests[q].latest ]_vars

C22_Witness ==
    /\ Len(medicalReports) = 2
    /\ Status(1) = COMPLETE
    /\ Status(2) = FAILED
    /\ extraction[2].pc = "failed"
    /\ \E q \in DOMAIN requests :
          /\ requests[q].resp = AnalysisFailed(2)
          /\ requests[q].seen = FAILED
          /\ NoRowsOf(q)

\* the element a Parameter row was made from
ItemOf(p) == extraction[p.id[1]].analysisResult.parameters[p.id[2]]

\* an optional field is absent from the element
Absent(v) == v \in {Missing, NULL}

\* C23 as stated: name or "Unknown" when missing or empty, the value's text
\* or "0" when missing or empty, and unit, referenceRange and status as in
\* the element, null only when missing.
C23_ParameterRowFields ==
    \A p \in medicalParameters :
        LET item == ItemOf(p) IN
        /\ p.parameterName = IF Absent(item.name) \/ item.name = ""
                             THEN "Unknown" ELSE item.name
        /\ p.value = IF Absent(item.value) \/ item.value = ""
                     THEN "0" ELSE OptionalToString(item.value)
        /\ p.unit = IF Absent(item.unit) THEN NULL ELSE item.unit
        /\ p.referenceRange = IF Absent(item.referenceRange) THEN NULL
                              ELSE item.referenceRange
        /\ p.status = IF Absent(item.status) THEN NULL ELSE item.status

\* what JavaScript takes for false among the JSON values
EmptyOrZero(v) == v = "" \/ v = ZERO

\* C23 (amended): name or "Unknown" when missing, empty or the number 0;
\* the value's text or "0" when missing or empty; unit, referenceRange and
\* status as in the element, null when missing, empty or the number 0.
C23_ParameterRowFieldsFalsyNulled ==
    \A p \in medicalParameters :
        LET item == ItemOf(p) IN
        /\ p.parameterName = IF Absent(item.name) \/ EmptyOrZero(item.name)
                             THEN "Unknown" ELSE item.name
        /\ p.value = IF Absent(item.value) \/ item.value = ""
                     THEN "0"
                     ELSE IF item.value = ZERO THEN "0"
                     ELSE IF item.value = TWO_AND_A_HALF THEN "2.5"
                     ELSE item.value
        /\ p.unit = IF Absent(item.unit) \/ EmptyOrZero(item.unit)
                    THEN NULL ELSE item.unit
        /\ p.referenceRange =
              IF Absent(item.referenceRange) \/ EmptyOrZero(item.referenceRange)
              THEN NULL ELSE item.referenceRange
        /\ p.status = IF Absent(item.status) \/ EmptyOrZero(item.status)
                      THEN NULL ELSE item.status

C23_Witness ==
    \E p \in medicalParameters :
        /\ ItemOf(p).name = "" /\ p.parameterName = "Unknown"
        /\ ItemOf(p).value = Missing /\ p.value = "0"
        /\ ItemOf(p).unit = "" /\ p.unit = NULL
        /\ ItemOf(p).referenceRange = "0.4-4.0" /\ p.referenceRange = "0.4-4.0"
        /\ ItemOf(p).status = NULL /\ p.status = NULL

\* the positions of one invocation in the order of the handler's text
StepOrder ==
    [createAssessment |-> 1, calculateRiskScore |-> 2, createRiskScore |-> 3,
     generateDailyTasks |-> 4, createDailyTask |-> 5, generateInsights |-> 6,
     createInsight |-> 7, done |-> 8, aborted |-> 8]

\* C24: an invocation moves through its steps in the order Assessment row,
\* risk-scoring call, RiskScore row, task-generation call with that risk
\* result, DailyTask rows, insight-generation call, Insight rows, response:
\* each call finds the rows of the earlier steps stored and none of the
\* later ones, no DailyTask or Insight exists without the RiskScore, and a
\* success response comes only after all three result sets are stored.
C24_StepsInOrder ==
    [][ \A q \in DOMAIN requests :
          LET old == requests[q]
              new == requests'[q]
          IN
          /\ StepOrder[old.pc] <= StepOrder[new.pc]
          /\ (old.pc # new.pc /\ new.pc \notin {"done", "aborted"})
                => \/ StepOrder[new.pc] = StepOrder[old.pc] + 1
                   \/ old.pc = "generateDailyTasks" /\ new.pc = "generateInsights"
          \* the risk-scoring call
          /\ (old.pc = "calculateRiskScore" /\ new.aiCalls = old.aiCalls + 1)
                => /\ Cardinality(AssessmentsOf(q)) = 1
                   /\ RiskScoresOf(q) = {} /\ DailyTasksOf(q) = {}
                   /\ InsightsOf(q) = {}
          \* the RiskScore is stored before the handler turns to the tasks
          /\ new.pc = "generateDailyTasks" => Cardinality(RiskScoresOf(q)') = 1
          \* the task-generation call, given the stored risk result
          /\ (old.pc = "generateDailyTasks" /\ new.aiCalls = old.aiCalls + 1)
                => /\ \E s \in RiskScoresOf(q) :
                         /\ s.score = old.riskResult.score
                         /\ s.riskLevel = old.riskResult.riskLevel
                   /\ DailyTasksOf(q) = {} /\ InsightsOf(q) = {}
          \* all DailyTask rows are stored before the insight-generation call
          /\ (old.pc = "createDailyTask" /\ new.pc = "generateInsights")
                => Cardinality(DailyTasksOf(q)') = old.count
          /\ (old.pc = "generateInsights" /\ new.aiCalls = old.aiCalls + 1)
                => /\ old.aiCalls = 2
                   /\ InsightsOf(q) = {}
                   /\ Cardinality(RiskScoresOf(q)) = 1
          \* the success response
          /\ (new.resp = AssessmentOK /\ old.resp # AssessmentOK)
                => /\ old.pc \in {"generateInsights", "createInsight"}
                   /\ new.aiCalls = 3
                   /\ old.pc = "createInsight"
                         => Cardinality(InsightsOf(q)') = old.count
                   /\ Cardinality(AssessmentsOf(q)') = 1
                   /\ Cardinality(RiskScoresOf(q)') = 1
          \* no DailyTask or Insight without the RiskScore, no RiskScore
          \* without the Assessment
          /\ (DailyTasksOf(q)' # {} \/ InsightsOf(q)' # {}) => RiskScoresOf(q)' # {}
          /\ RiskScoresOf(q)' # {} => AssessmentsOf(q)' # {} ]_vars

C24_Witness ==
    \E q \in DOMAIN requests :
        /\ requests[q].resp = AssessmentOK
        /\ requests[q].aiCalls = 3
        /\ Cardinality(AssessmentsOf(q)) = 1
        /\ Cardinality(RiskScoresOf(q)) = 1
        /\ Cardinality(DailyTasksOf(q)) = MaxGen
        /\ Cardinality(InsightsOf(q)) = MaxGen

\* C25: without a restart every accepted upload's Report eventually leaves
\* PENDING, once the extraction call has returned or thrown.
C25_EveryReportLeavesPending ==
    \A r \in 1..MaxOps :
        (r \in DOMAIN medicalReports /\ Status(r) = PENDING)
            ~> (r \in DOMAIN medicalReports /\ Status(r) \in {COMPLETE, FAILED})

\* C26: every RiskScore, DailyTask and Insight row references a Report
\* whose status is COMPLETE.
C26_ResultRowsReferenceCompleteReport ==
    \A row \in riskScores \cup dailyTasks \cup insights :
        /\ row.reportId \in DOMAIN medicalReports
        /\ Status(row.reportId) = COMPLETE

\* the extraction task of Report r takes this step
TaskStep(r) == r \in DOMAIN extraction /\ extraction'[r] # extraction[r]

\* C27: a step of the extraction task of Report R changes at most R's own
\* row, and there only the status and the extracted data, and creates only
\* Parameter rows of R; every change of a stored Report and every new
\* Parameter row is the work of that Report's own task.
C27_ExtractionTouchesOwnReportOnly ==
    [][ /\ \A r \in DOMAIN extraction :
              TaskStep(r)
                  => /\ \A o \in DOMAIN medicalReports \ {r} :
                           medicalReports'[o] = medicalReports[o]
                     /\ medicalReports'[r].id = medicalReports[r].id
                     /\ medicalReports'[r].uploadedAt = medicalReports[r].uploadedAt
                     /\ medicalReports'[r].fileType = medicalReports[r].fileType
                     /\ \A p \in medicalParameters' \ medicalParameters :
                           p.reportId = medicalReports[r].id
                     /\ \A o \in DOMAIN extraction \ {r} : ~TaskStep(o)
        /\ \A o \in DOMAIN medicalReports :
              medicalReports'[o] # medicalReports[o] => TaskStep(o)
        /\ \A p \in medicalParameters' \ medicalParameters :
              /\ p.reportId \in DOMAIN medicalReports
              /\ TaskStep(p.reportId)
        /\ medicalParameters \subseteq medicalParameters' ]_vars

C27_Witness ==
    /\ Len(medicalReports) = 2
    /\ extraction[1].pc = "catch"
    /\ Status(1) = COMPLETE
    /\ extraction[2].pc = "params"
    /\ Status(2) = COMPLETE
    /\ ParametersOf(1) # {}

\* the positions in chat_messages of the messages a send has stored
MessagesOf(c, role) ==
    {i \in DOMAIN chatMessages :
        chatMessages[i].id[1] = c /\ chatMessages[i].role = role}

\* C28: a chat send answered with success has stored exactly one 'user'
\* message with the sent content and after it exactly one 'assistant'
\* message whose content is the response given to the caller; a send
\* rejected for empty content or for the missing API key has stored nothing.
C28_SuccessfulSendStoresBothMessages ==
    \A c \in DOMAIN chats :
        /\ (chats[c].pc = "done" /\ chats[c].resp.success)
              => /\ chats[c].resp.code = 200
                 /\ Cardinality(MessagesOf(c, "user")) = 1
                 /\ Cardinality(MessagesOf(c, "assistant")) = 1
                 /\ \A u \in MessagesOf(c, "user"), a \in MessagesOf(c, "assistant") :
                       /\ u < a
                       /\ chatMessages[u].content = TextOf(chats[c].content)
                       /\ chatMessages[a].content = chats[c].resp.response
                       /\ chats[c].resp.response # ""
        /\ (chats[c].content.kind # "text" \/ chats[c].resp.code = 400
              \/ chats[c].resp.error = "AI service not configured. Please contact support.")
              => /\ ~chats[c].resp.success
                 /\ chats[c].pc = "done"
                 /\ MessagesOf(c, "user") = {}
                 /\ MessagesOf(c, "assistant") = {}

C28_Witness ==
    \E c \in DOMAIN chats :
        /\ chats[c].pc = "done"
        /\ chats[c].resp.success
        /\ chats[c].storeThrew = {"createAssistant"}
        /\ chats[c].resp.response = fallbackResponse
        /\ Cardinality(MessagesOf(c, "user")) = 1
        /\ Cardinality(MessagesOf(c, "assistant")) = 1

\* C29: the contents handed to the model for a send hold the newly sent
\* message once, as the last entry: before it come only messages stored by
\* other sends.
C29_NewMessageSentOnce ==
    \A c \in DOMAIN chats :
        chats[c].pc = "createAssistant"
            => LET conversation == chats[c].conversation IN
               /\ conversation # <<>>
               /\ conversation[Len(conversation)] =
                     [role |-> "user", content |-> TextOf(chats[c].content)]
               /\ Len(conversation) - 1 <=
                     Cardinality({i \in DOMAIN chatMessages :
                                     chatMessages[i].id[1] # c})

\* C30: when the poller shows 'Assessment complete!' the server has
\* processed its resubmission: the resubmission was answered as a success
\* and an Assessment and a RiskScore row of it exist.
C30_CompleteToastMeansProcessed ==
    poller.toast = "Assessment complete!"
        => /\ poller.request \in DOMAIN requests
           /\ requests[poller.request].resp = AssessmentOK
           /\ Cardinality(AssessmentsOf(poller.request)) = 1
           /\ Cardinality(RiskScoresOf(poller.request)) = 1
====
